---- MODULE Spec2Model ----
(***************************************************************************)
(* nixless-agent: the state keeper's persistent state machine, the agent   *)
(* state (history, status, packages_to_cleanup, state file), the switch    *)
(* task (download, unpack, activate), the deleter, the activation unit and *)
(* its tracker files, and profile-link repair.                             *)
(***************************************************************************)
EXTENDS Integers, Sequences, FiniteSets, TLC

\* ------------------------------------------------------------------------
\* Bounds of the model
\* ------------------------------------------------------------------------

\* Package identifiers that exist in the binary cache.
PackageIds == {"a", "b"}

\* Number of switch / rollback requests the clients send in one behaviour.
MaxSwitches == 2

\* Number of switch requests in a behaviour without rollbacks and crashes.
MaxInstalls == 3

\* Number of process crashes (each followed by a restart) in one behaviour.
MaxCrashes == 1

\* max_system_history_count is drawn from 0..MaxHistoryCount.
MaxHistoryCount == 2

\* ------------------------------------------------------------------------
\* Program constants
\* ------------------------------------------------------------------------

\* mpsc::channel(10) of the state keeper.
QueueCapacity == 10

\* References of each package, as its narinfo in the binary cache lists them.
References == [p \in PackageIds |-> IF p = "a" THEN {"b"} ELSE {}]

\* ------------------------------------------------------------------------
\* SystemConfiguration
\* ------------------------------------------------------------------------

SystemConfiguration(v, s, p) ==
    [version_number |-> v, system_package_id |-> s, package_ids |-> p]

tombstone == SystemConfiguration(0, "unknown", {})

is_tombstone(c) ==
    /\ c.version_number = 0
    /\ c.system_package_id = "unknown"
    /\ c.package_ids = {}

\* Placeholder carried by the statuses that have no configuration.
NoConfiguration == SystemConfiguration(0, "none", {})

AgentStateStatus(tag, cfg) == [tag |-> tag, configuration |-> cfg]

StatusNew == AgentStateStatus("New", NoConfiguration)
StatusStandby == AgentStateStatus("Standby", NoConfiguration)

\* The statuses that carry a configuration.
into_inner_configuration(status) ==
    IF status.tag \in {"FailedSwitch", "DownloadingNewConfiguration",
                       "SwitchingToConfiguration"}
    THEN {status.configuration}
    ELSE {}

\* The serialised fields of AgentState (the JSON document).
AgentStateDoc(configs, status, cleanup) ==
    [system_configurations |-> configs,
     current_status |-> status,
     packages_to_cleanup |-> cleanup]

\* The state file does not exist.
NoFile == [system_configurations |-> <<>>,
           current_status |-> AgentStateStatus("NoFile", NoConfiguration),
           packages_to_cleanup |-> {}]

\* Sequence helpers.
Range(s) == {s[i] : i \in 1..Len(s)}
Last(s) == s[Len(s)]
Drain(s, n) == SubSeq(s, n + 1, Len(s))
Drained(s, n) == SubSeq(s, 1, n)

\* All the packages of a configuration: its package_ids and its system package.
ConfigPackages(c) == c.package_ids \cup {c.system_package_id}
PackagesOf(configs) == UNION {ConfigPackages(configs[i]) : i \in 1..Len(configs)}

\* ------------------------------------------------------------------------
\* Profile links (path_utils.rs, AgentState::repair_profile_links)
\* ------------------------------------------------------------------------
\* A file name is the sequence of its "-"-separated parts: "system-3-link" is
\* <<"system", "3", "link">>. The profiles directory is a function from the
\* names present to directory entries.

\* format!("{}", num) for the version numbers of the model.
U32Strings == <<"0", "1", "2", "3", "4", "5", "6", "7", "8", "9", "10", "11", "12">>
FormatU32(num) == U32Strings[num + 1]

\* str::parse::<u32>: decimal digits with leading zeros accepted; -1 stands
\* for the parse error.
ParseU32(str) ==
    IF \E n \in 1..Len(U32Strings) : U32Strings[n] = str
    THEN (CHOOSE n \in 1..Len(U32Strings) : U32Strings[n] = str) - 1
    ELSE IF str = "03" THEN 3
    ELSE -1

get_number_from_numbered_system_name(name) ==
    IF Len(name) < 2 THEN -1 ELSE ParseU32(name[2])

SystemProfileName == <<"system">>
absolute_numbered_system_profile_path(num) == <<"system", FormatU32(num), "link">>
TemporaryName(name) == Append(name, "temporary")

Symlink(target) == [kind |-> "symlink", target |-> target]
Directory == [kind |-> "dir", target |-> ""]

\* A symlink target exists when it is a package directory of the store or a
\* path outside the store ("elsewhere").
TargetExists(target, store_dirs) == target \in store_dirs \/ target = "elsewhere"

\* Path::exists follows symlinks: a dangling symlink does not exist.
PathExists(dir, store_dirs, name) ==
    /\ name \in DOMAIN dir
    /\ dir[name].kind = "symlink" => TargetExists(dir[name].target, store_dirs)

EmptyDirectory == [n \in {} |-> Directory]

RemoveEntries(dir, names) == [n \in (DOMAIN dir) \ names |-> dir[n]]

\* symlink(target, <path>-temporary), then rename(<path>-temporary, path).
\* writes is the number of system calls that changed the directory.
overwrite_symlink_atomically(dir, target, name) ==
    IF TemporaryName(name) \in DOMAIN dir
    THEN [ok |-> FALSE, dir |-> dir, writes |-> 0]
    ELSE IF name \in DOMAIN dir /\ dir[name].kind = "dir"
    THEN [ok |-> FALSE, dir |-> (TemporaryName(name) :> Symlink(target)) @@ dir,
          writes |-> 1]
    ELSE [ok |-> TRUE, dir |-> (name :> Symlink(target)) @@ dir, writes |-> 2]

\* overwrite_symlink_atomically_with_check leaving any existing link alone.
overwrite_symlink_without_comparing(dir, store_dirs, target, name) ==
    IF PathExists(dir, store_dirs, name)
    THEN IF dir[name].kind # "symlink"
         THEN [ok |-> FALSE, dir |-> dir, writes |-> 0]
         ELSE [ok |-> TRUE, dir |-> dir, writes |-> 0]
    ELSE overwrite_symlink_atomically(dir, target, name)

overwrite_symlink_atomically_with_check(dir, store_dirs, target, name) ==
    IF PathExists(dir, store_dirs, name)
    THEN IF dir[name].kind # "symlink"
         THEN [ok |-> FALSE, dir |-> dir, writes |-> 0]
         ELSE IF dir[name].target = target
         THEN [ok |-> TRUE, dir |-> dir, writes |-> 0]
         ELSE overwrite_symlink_atomically(dir, target, name)
    ELSE overwrite_symlink_atomically(dir, target, name)

\* The loop over the tracked configurations, from configuration i on.
RECURSIVE RecreateLinks(_, _, _, _)
RecreateLinks(configs, i, dir, store_dirs) ==
    IF i > Len(configs)
    THEN [ok |-> TRUE, dir |-> dir, writes |-> 0]
    ELSE LET r == overwrite_symlink_atomically_with_check(
                      dir, store_dirs, configs[i].system_package_id,
                      absolute_numbered_system_profile_path(configs[i].version_number))
         IN IF r.ok
            THEN [RecreateLinks(configs, i + 1, r.dir, store_dirs)
                     EXCEPT !.writes = @ + r.writes]
            ELSE r

\* AgentState::repair_profile_links. outcome is "ok", "err" (the function
\* returned Err) or "panic" (latest_system_package_path unwraps the last
\* configuration of an empty history). When an entry makes the first loop
\* fail, the entries removed before it depend on the order of read_dir; the
\* directory is then reported as it was before the call.
repair_profile_links(configs, dir, store_dirs) ==
    LET others == (DOMAIN dir) \ {SystemProfileName}
        versions == {configs[i].version_number : i \in 1..Len(configs)}
        untracked == {n \in others : get_number_from_numbered_system_name(n) \notin versions}
        cleaned == RemoveEntries(dir, untracked)
        links == RecreateLinks(configs, 1, cleaned, store_dirs)
        removed == Cardinality(untracked)
    IN IF \E n \in others : get_number_from_numbered_system_name(n) = -1
       THEN [outcome |-> "err", dir |-> dir, writes |-> 0]
       ELSE IF \E n \in untracked : dir[n].kind = "dir"
       THEN [outcome |-> "err", dir |-> dir, writes |-> 0]
       ELSE IF ~links.ok
       THEN [outcome |-> "err", dir |-> links.dir,
             writes |-> removed + links.writes]
       ELSE IF configs = <<>>
       THEN [outcome |-> "panic", dir |-> links.dir,
             writes |-> removed + links.writes]
       ELSE LET r == overwrite_symlink_atomically_with_check(
                         links.dir, store_dirs, Last(configs).system_package_id,
                         SystemProfileName)
            IN [outcome |-> IF r.ok THEN "ok" ELSE "err", dir |-> r.dir,
                writes |-> removed + links.writes + r.writes]

\* ------------------------------------------------------------------------
\* AgentState (state/agent_state.rs)
\* ------------------------------------------------------------------------
\* An agent state value holds the in-memory fields of AgentState together
\* with the two places on disk its methods write: the state file and the
\* profiles directory.

latest_configuration_version(configs) == Last(configs).version_number

\* AgentState::save: truncate and write the JSON document.
save(agent) ==
    [agent EXCEPT !.state_file =
        AgentStateDoc(agent.system_configurations, agent.current_status,
                      agent.packages_to_cleanup)]

set_standby(agent) == save([agent EXCEPT !.current_status = StatusStandby])

\* mark_switching_new_system giving the new configuration the latest
\* version number instead of the next one.
mark_switching_same_version(agent, system_package_id, package_ids) ==
    IF agent.current_status.tag # "Standby"
    THEN [outcome |-> "err", agent |-> agent]
    ELSE [outcome |-> "ok",
          agent |-> save([agent EXCEPT !.current_status =
              AgentStateStatus("SwitchingToConfiguration",
                  SystemConfiguration(
                      latest_configuration_version(agent.system_configurations),
                      system_package_id, package_ids))])]

mark_switching_new_system(agent, system_package_id, package_ids) ==
    IF agent.current_status.tag # "Standby"
    THEN [outcome |-> "err", agent |-> agent]
    ELSE [outcome |-> "ok",
          agent |-> save([agent EXCEPT !.current_status =
              AgentStateStatus("SwitchingToConfiguration",
                  SystemConfiguration(
                      latest_configuration_version(agent.system_configurations) + 1,
                      system_package_id, package_ids))])]

\* The state is saved before the links are repaired.
mark_new_system_successful(agent, store_dirs) ==
    IF agent.current_status.tag # "SwitchingToConfiguration"
    THEN [outcome |-> "err", agent |-> agent]
    ELSE LET saved == save([agent EXCEPT
                 !.system_configurations =
                     Append(@, agent.current_status.configuration),
                 !.current_status = StatusStandby])
             rep == repair_profile_links(saved.system_configurations,
                                         saved.profiles, store_dirs)
         IN [outcome |-> rep.outcome,
             agent |-> [saved EXCEPT !.profiles = rep.dir]]

mark_new_system_failed(agent) ==
    IF agent.current_status.tag # "SwitchingToConfiguration"
    THEN [outcome |-> "err", agent |-> agent]
    ELSE [outcome |-> "ok",
          agent |-> save([agent EXCEPT !.current_status =
              AgentStateStatus("FailedSwitch", @.configuration)])]

\* num_configs_to_remove keeping one configuration more.
num_configs_keeping_one_more(configs, max_count) ==
    LET tracked_valid_configurations ==
            IF is_tombstone(configs[1]) THEN Len(configs) - 1 ELSE Len(configs)
    IN IF tracked_valid_configurations <= max_count + 1
       THEN 0
       ELSE tracked_valid_configurations - max_count - 1

\* The configurations a history cleanup removes from the front of the history.
num_configs_to_remove(configs, max_count) ==
    LET tracked_valid_configurations ==
            IF is_tombstone(configs[1]) THEN Len(configs) - 1 ELSE Len(configs)
    IN IF tracked_valid_configurations <= max_count
       THEN 0
       ELSE tracked_valid_configurations - max_count

\* The packages of the removed configurations that no remaining one has.
packages_from_removed_configs(removed_configs, remaining_configs) ==
    PackagesOf(removed_configs) \ PackagesOf(remaining_configs)

\* AgentState::cleanup_configuration_history. It does not save the state.
cleanup_configuration_history(agent, max_count, store_dirs) ==
    IF agent.current_status.tag # "Standby"
    THEN [outcome |-> "err", agent |-> agent]
    ELSE LET n == num_configs_to_remove(agent.system_configurations, max_count)
             removed_configs == Drained(agent.system_configurations, n)
             remaining_configs == Drain(agent.system_configurations, n)
             pruned == [agent EXCEPT
                 !.system_configurations = remaining_configs,
                 !.packages_to_cleanup =
                     @ \cup packages_from_removed_configs(removed_configs,
                                                          remaining_configs)]
             rep == repair_profile_links(remaining_configs, agent.profiles,
                                         store_dirs)
         IN IF n = 0
            THEN [outcome |-> "ok", agent |-> agent]
            ELSE [outcome |-> rep.outcome,
                  agent |-> [pruned EXCEPT !.profiles = rep.dir]]

has_packages_to_cleanup(agent) == agent.packages_to_cleanup # {}

\* The set is cleared in memory and the state file is left as it is.
clear_packages_to_cleanup_without_save(agent) ==
    [agent EXCEPT !.packages_to_cleanup = {}]

clear_packages_to_cleanup(agent) ==
    save([agent EXCEPT !.packages_to_cleanup = {}])

\* AgentState::mark_performing_rollback is called by the state keeper and is
\* not part of the sources: the target is the configuration with the
\* requested version, or the one before the latest when no version is given
\* (-1); the status becomes SwitchingToConfiguration with the target's
\* packages under the next version number, and is saved.
RollbackTarget(configs, to_version) ==
    IF to_version = -1
    THEN IF Len(configs) >= 2 THEN {configs[Len(configs) - 1]} ELSE {}
    ELSE {configs[i] : i \in {j \in 1..Len(configs) :
                                 configs[j].version_number = to_version}}

mark_performing_rollback(agent, to_version) ==
    LET targets == RollbackTarget(agent.system_configurations, to_version)
    IN IF agent.current_status.tag \notin {"Standby", "FailedSwitch"} \/ targets = {}
       THEN [outcome |-> "err", agent |-> agent]
       ELSE LET target == CHOOSE c \in targets : TRUE
            IN [outcome |-> "ok",
                agent |-> save([agent EXCEPT !.current_status =
                    AgentStateStatus("SwitchingToConfiguration",
                        SystemConfiguration(
                            latest_configuration_version(agent.system_configurations) + 1,
                            target.system_package_id, target.package_ids))])]

\* ------------------------------------------------------------------------
\* Activation-outcome files (state/system_switch.rs)
\* ------------------------------------------------------------------------
\* The tracker files: pre_switch and switch_success are present or absent;
\* post_switch is absent or holds its lines.

NoPostSwitch == [exists |-> FALSE, lines |-> <<>>]
PostSwitch(lines) == [exists |-> TRUE, lines |-> lines]
TrackerFiles(pre, success, post) ==
    [pre_switch |-> pre, switch_success |-> success, post_switch |-> post]

\* clean_up_system_switch_tracking_files removing nothing.
clean_up_nothing(files) == files

clean_up_system_switch_tracking_files(files) ==
    TrackerFiles(FALSE, FALSE, NoPostSwitch)

\* check_switching_status: the status returned and the files left behind.
\* kind is "Successful", "Failed", "InProgress" or "Err" (the contents of
\* post_switch are not three lines).
check_switching_status(files) ==
    LET started == files.pre_switch
        finished == files.post_switch.exists
        successful == files.switch_success
        lines == files.post_switch.lines
    IN IF started /\ finished /\ successful
       THEN [kind |-> "Successful", reboot_required |-> FALSE, codes |-> <<>>,
             files |-> clean_up_system_switch_tracking_files(files)]
       ELSE IF started /\ finished
       THEN IF Len(lines) # 3
            THEN [kind |-> "Err", reboot_required |-> FALSE, codes |-> <<>>,
                  files |-> files]
            ELSE IF lines[1] = "exit-code" /\ lines[3] = "100"
            THEN [kind |-> "Successful", reboot_required |-> TRUE, codes |-> <<>>,
                  files |-> clean_up_system_switch_tracking_files(files)]
            ELSE [kind |-> "Failed", reboot_required |-> FALSE, codes |-> lines,
                  files |-> clean_up_system_switch_tracking_files(files)]
       ELSE [kind |-> "InProgress", reboot_required |-> FALSE, codes |-> <<>>,
             files |-> files]

\* ------------------------------------------------------------------------
\* State
\* ------------------------------------------------------------------------

VARIABLES
    \* AgentState in memory, its state file and the profiles directory
    system_configurations, current_status, packages_to_cleanup,
    state_file, profiles,
    \* configuration of the process
    max_system_history_count,
    \* the store directory, the tracker files, the switch_start_time file
    store, tracker, switch_start_time,
    \* the state keeper: its input queue, its position, its task handles
    queue, sk,
    pending_clean_up_task, pending_system_switch_task, pending_package_delete_task,
    \* the tasks spawned by the state keeper, the downloader's set, the unit
    switch_task, delete_tasks, clean_up_task, existing_store_package_ids, unit,
    \* the answer to the client's last request; the requests and crashes to come
    resp, requests_left, crashes_left,
    \* what the run did so far: successful switches, history cleanups, the
    \* configurations dropped and the ids added to packages_to_cleanup
    successful_switches, cleanups, dropped_configs, cleanup_added,
    \* results of the calls made by the specifications of single operations
    call_results,
    \* the activation driver: its input queue, its pending_switch_task
    \* handle, its task and the switch tasks it spawned that are running
    dbus_connection

agent_vars == <<system_configurations, current_status, packages_to_cleanup,
                state_file, profiles>>
disk_vars == <<store, tracker, switch_start_time>>
handle_vars == <<pending_clean_up_task, pending_system_switch_task,
                 pending_package_delete_task>>
task_vars == <<switch_task, delete_tasks, clean_up_task,
               existing_store_package_ids, unit>>
run_vars == <<requests_left, crashes_left>>
history_vars == <<successful_switches, cleanups, dropped_configs, cleanup_added>>

vars == <<agent_vars, max_system_history_count, dbus_connection, disk_vars, queue, sk,
          handle_vars, task_vars, resp, run_vars, history_vars, call_results>>

\* The agent state value made of the variables, and its assignment.
Agent ==
    [system_configurations |-> system_configurations,
     current_status |-> current_status,
     packages_to_cleanup |-> packages_to_cleanup,
     state_file |-> state_file,
     profiles |-> profiles]

SetAgent(agent) ==
    /\ system_configurations' = agent.system_configurations
    /\ current_status' = agent.current_status
    /\ packages_to_cleanup' = agent.packages_to_cleanup
    /\ state_file' = agent.state_file
    /\ profiles' = agent.profiles

\* StateKeeperRequest
Request(type, ok, system_package_id, package_ids, to_version) ==
    [type |-> type, ok |-> ok, system_package_id |-> system_package_id,
     package_ids |-> package_ids, to_version |-> to_version]

CleanUpStateDir == Request("CleanUpStateDir", TRUE, "", {}, -1)
CleanUpStateDirResult(ok) == Request("CleanUpStateDirResult", ok, "", {}, -1)
SwitchToNewConfiguration(system_package_id, package_ids) ==
    Request("SwitchToNewConfiguration", TRUE, system_package_id, package_ids, -1)
ConfigurationSwitchStartResult(ok) ==
    Request("ConfigurationSwitchStartResult", ok, "", {}, -1)
CleanupConfigurationHistory == Request("CleanupConfigurationHistory", TRUE, "", {}, -1)
PackageDeletionResult(ok) == Request("PackageDeletionResult", ok, "", {}, -1)
PerformRollback(to_version) == Request("PerformRollback", TRUE, "", {}, to_version)
GetSummary == Request("GetSummary", TRUE, "", {}, -1)

NoTask == [pc |-> "none", package_ids |-> {}, to_unpack |-> {}]
NoUnit == [state |-> "absent", result |-> "none"]

\* The state keeper's loop is receiving (its queue is open).
Receiving == sk \in {"init", "running", "waiting"}

\* The state keeper left its loop and is shutting down: it waits for the
\* clean-up task, then for the delete task, then for the four actors.
ShuttingDown == sk \in {"left_loop", "awaiting_delete", "joining_actors"}

\* The receiving end of the state keeper's queue exists until
\* state_keeper_task returns.
ChannelOpen == Receiving \/ ShuttingDown \/ sk = "blocked"

\* The messages held by the channel of the state keeper. The loop takes a
\* message as soon as there is one, so the head of the queue is the message
\* whose handler is running and it occupies no slot of the channel.
InChannel ==
    IF sk \in {"running", "waiting"} /\ queue # << >>
    THEN Len(queue) - 1
    ELSE Len(queue)

\* A task that posts only while the loop of the state keeper is receiving.
CanPostWhileReceiving == Receiving /\ InChannel < QueueCapacity

\* A task posts a message to the state keeper: it waits for a free slot, and
\* the message is lost when the state keeper stopped.
CanPost == ChannelOpen => InChannel < QueueCapacity
Posted(q, msg) == IF ChannelOpen THEN Append(q, msg) ELSE q

\* The state keeper sends a message to its own queue with input_tx.send and
\* awaits the send: with no free slot among the messages q of the channel it
\* waits for one, and nothing else receives from the channel.
SelfSendBlocks(q) == Len(q) >= QueueCapacity
SelfSent(q, msg) == IF SelfSendBlocks(q) THEN q ELSE Append(q, msg)
AfterSelfSend(q) == IF SelfSendBlocks(q) THEN "blocked" ELSE "running"

\* Version numbers found for the running system on a first start.
InitialVersions == {0, 1}

\* First start, no state file (AgentState::new): the running system is not
\* identified (tombstone value with the packages of the store) or is a
\* package of the store with the version number of its profile link (0 when
\* the profile link cannot be read).
InitialConfigurations(store_dirs) ==
    {[tombstone EXCEPT !.package_ids = store_dirs]} \cup
    {SystemConfiguration(v, s, store_dirs) : v \in InitialVersions, s \in store_dirs}

\* The profiles directory a version number above 0 is read from: `system`
\* points to system-<v>-link, which points to the system package.
InitialProfiles(c) ==
    IF c.version_number = 0
    THEN EmptyDirectory
    ELSE (SystemProfileName :> Symlink("elsewhere")) @@
         (absolute_numbered_system_profile_path(c.version_number) :>
              Symlink(c.system_package_id))

\* DBusConnection::start: the driver's task runs, its queue is empty and it
\* has no pending switch task. sent counts the requests it was sent.
StartedDBusConnection ==
    [input |-> << >>, pending_switch_task |-> FALSE, task |-> "running",
     switch_tasks |-> 0, answered |-> 0, sent |-> 0]

\* Nothing runs beside the state keeper, and nothing happened yet.
Quiescent ==
    /\ switch_start_time = FALSE
    /\ queue = << >>
    /\ pending_clean_up_task = FALSE
    /\ pending_system_switch_task = FALSE
    /\ pending_package_delete_task = FALSE
    /\ switch_task = NoTask
    /\ delete_tasks = << >>
    /\ clean_up_task = "none"
    /\ unit = NoUnit
    /\ resp = "none"
    /\ successful_switches = 0
    /\ cleanups = 0
    /\ dropped_configs = {}
    /\ cleanup_added = {}
    /\ call_results = << >>
    /\ dbus_connection = StartedDBusConnection

\* The process starts for the first time.
FirstStart ==
    /\ store \in SUBSET PackageIds
    /\ \E c \in InitialConfigurations(store) :
          /\ system_configurations = <<c>>
          /\ profiles = InitialProfiles(c)
    /\ current_status = StatusNew
    /\ packages_to_cleanup = {}
    /\ state_file = NoFile
    /\ max_system_history_count \in 0..MaxHistoryCount
    /\ sk = "init"
    /\ existing_store_package_ids = store
    /\ tracker = TrackerFiles(FALSE, FALSE, NoPostSwitch)
    /\ Quiescent

Init ==
    /\ FirstStart
    /\ requests_left = MaxSwitches
    /\ crashes_left = MaxCrashes

\* ------------------------------------------------------------------------
\* The downloader's request (actors/downloader.rs)
\* ------------------------------------------------------------------------

\* missing_references finding every reference present.
missing_references_ignored(package_ids, existing) == FALSE

\* Some result refers to a package that is not (and will not be) in the
\* store, as far as the downloader knows.
missing_references(package_ids, existing) ==
    \E p \in package_ids : ~(References[p] \subseteq existing)

\* DownloaderRequest::DownloadPackages: the packages in
\* existing_store_package_ids are taken as present, the others are fetched
\* (fetched tells whether every fetch succeeded); when no fetch fails the
\* set is extended with all of them and the references are checked. The
\* answer, the downloader's set after the request and the results that are
\* not already unpacked.
download_packages(package_ids, existing, fetched) ==
    LET to_download == package_ids \ existing
        extended == existing \cup package_ids
    IN IF to_download # {} /\ ~fetched
       THEN [ok |-> FALSE, existing |-> existing, to_unpack |-> {}]
       ELSE IF missing_references(package_ids, extended)
       THEN [ok |-> FALSE, existing |-> extended, to_unpack |-> {}]
       ELSE [ok |-> TRUE, existing |-> extended, to_unpack |-> to_download]

\* ------------------------------------------------------------------------
\* The state keeper (actors/state_keeper.rs)
\* ------------------------------------------------------------------------

\* The initial recovery of state_keeper_task, before its main loop. With
\* DownloadingNewConfiguration the download is requested again and awaited;
\* its result is dropped, and an error ends the state keeper.
SKInitialRecovery ==
    /\ sk = "init"
    /\ IF current_status.tag \in {"New", "Standby"}
       THEN /\ SetAgent(set_standby(Agent))
            /\ queue' = SelfSent(queue, CleanUpStateDir)
            /\ sk' = AfterSelfSend(queue)
            /\ UNCHANGED existing_store_package_ids
       ELSE IF current_status.tag = "DownloadingNewConfiguration"
       THEN /\ \E fetched \in BOOLEAN :
                  \E r \in {download_packages(current_status.configuration.package_ids,
                                              existing_store_package_ids, fetched)} :
                     /\ existing_store_package_ids' = r.existing
                     /\ sk' = IF r.ok THEN "running" ELSE "failed"
            /\ UNCHANGED <<agent_vars, queue>>
       ELSE IF current_status.tag = "SwitchingToConfiguration"
       THEN /\ queue' = SelfSent(queue, ConfigurationSwitchStartResult(TRUE))
            /\ sk' = AfterSelfSend(queue)
            /\ UNCHANGED <<agent_vars, existing_store_package_ids>>
       ELSE /\ sk' = "running"
            /\ UNCHANGED <<agent_vars, queue, existing_store_package_ids>>
    /\ UNCHANGED <<max_system_history_count, dbus_connection, disk_vars, handle_vars, switch_task,
                   delete_tasks, clean_up_task, unit, resp, run_vars,
                   history_vars, call_results>>

\* The main loop took the request at the head of the queue.
Handling(type) ==
    /\ sk = "running"
    /\ queue # << >>
    /\ Head(queue).type = type

HandleCleanUpStateDir ==
    /\ Handling("CleanUpStateDir")
    /\ queue' = Tail(queue)
    /\ clean_up_task' = "running"
    /\ pending_clean_up_task' = TRUE
    /\ UNCHANGED <<agent_vars, max_system_history_count, dbus_connection, disk_vars, sk,
                   pending_system_switch_task, pending_package_delete_task,
                   switch_task, delete_tasks, existing_store_package_ids, unit,
                   resp, run_vars, history_vars, call_results>>

\* The task spawned for CleanUpStateDir: clean_up_nix_var_dir, then its result.
CleanUpStateDirTask ==
    /\ clean_up_task = "running"
    /\ CanPost
    /\ \E ok \in BOOLEAN : queue' = Posted(queue, CleanUpStateDirResult(ok))
    /\ clean_up_task' = "none"
    /\ UNCHANGED <<agent_vars, max_system_history_count, dbus_connection, disk_vars, sk,
                   handle_vars, switch_task, delete_tasks,
                   existing_store_package_ids, unit, resp, run_vars,
                   history_vars, call_results>>

HandleCleanUpStateDirResult ==
    /\ Handling("CleanUpStateDirResult")
    /\ queue' = Tail(queue)
    /\ pending_clean_up_task' = FALSE
    /\ UNCHANGED <<agent_vars, max_system_history_count, dbus_connection, disk_vars, sk,
                   pending_system_switch_task, pending_package_delete_task,
                   task_vars, resp, run_vars, history_vars, call_results>>

\* The answers a caller gets: Ok, one of the errors the handlers send, or
\* the error of a response channel that was dropped.
AlreadyFailed == "already failed a system switch"
AlreadyDownloading == "already downloading"
AlreadySwitching == "already switching"
ChannelClosed == "channel closed"

\* switch_refusal without the FailedSwitch arm.
switch_refusal_without_failed(status) ==
    IF status.tag = "DownloadingNewConfiguration" THEN AlreadyDownloading
    ELSE IF status.tag = "SwitchingToConfiguration" THEN AlreadySwitching
    ELSE "none"

\* The statuses in which SwitchToNewConfiguration is answered with an error,
\* and the error.
switch_refusal(status) ==
    IF status.tag = "FailedSwitch" THEN AlreadyFailed
    ELSE IF status.tag = "DownloadingNewConfiguration" THEN AlreadyDownloading
    ELSE IF status.tag = "SwitchingToConfiguration" THEN AlreadySwitching
    ELSE "none"

\* SwitchToNewConfiguration: refused with an error unless the status is
\* Standby; in Standby the status is marked and saved, the caller is
\* answered and the switch task is spawned.
HandleSwitchToNewConfiguration ==
    /\ Handling("SwitchToNewConfiguration")
    /\ queue' = Tail(queue)
    /\ IF switch_refusal(current_status) # "none"
       THEN /\ resp' = switch_refusal(current_status)
            /\ UNCHANGED <<agent_vars, sk, pending_system_switch_task, switch_task>>
       ELSE LET m == mark_switching_new_system(Agent, Head(queue).system_package_id,
                                               Head(queue).package_ids)
            IN IF m.outcome # "ok"
               THEN /\ sk' = "failed"
                    /\ resp' = ChannelClosed
                    /\ UNCHANGED <<agent_vars, pending_system_switch_task, switch_task>>
               ELSE /\ SetAgent(m.agent)
                    /\ resp' = "ok"
                    /\ pending_system_switch_task' = TRUE
                    /\ switch_task' = [pc |-> "download",
                                       package_ids |-> Head(queue).package_ids,
                                       to_unpack |-> {}]
                    /\ sk' = sk
    /\ UNCHANGED <<max_system_history_count, dbus_connection, disk_vars, pending_clean_up_task,
                   pending_package_delete_task, delete_tasks, clean_up_task,
                   existing_store_package_ids, unit, run_vars, history_vars,
                   call_results>>

\* rollback_refusal without the SwitchingToConfiguration arm.
rollback_refusal_while_downloading(status) ==
    IF status.tag = "DownloadingNewConfiguration" THEN AlreadyDownloading
    ELSE "none"

\* The statuses in which PerformRollback is answered with an error, and the
\* error.
rollback_refusal(status) ==
    IF status.tag = "DownloadingNewConfiguration" THEN AlreadyDownloading
    ELSE IF status.tag = "SwitchingToConfiguration" THEN AlreadySwitching
    ELSE "none"

\* PerformRollback: refused while downloading or switching; otherwise the
\* rollback is marked, the caller answered and the rollback task spawned.
HandlePerformRollback ==
    /\ Handling("PerformRollback")
    /\ queue' = Tail(queue)
    /\ IF rollback_refusal(current_status) # "none"
       THEN /\ resp' = rollback_refusal(current_status)
            /\ UNCHANGED <<agent_vars, sk, pending_system_switch_task, switch_task>>
       ELSE LET m == mark_performing_rollback(Agent, Head(queue).to_version)
            IN IF m.outcome # "ok"
               THEN /\ sk' = "failed"
                    /\ resp' = ChannelClosed
                    /\ UNCHANGED <<agent_vars, pending_system_switch_task, switch_task>>
               ELSE /\ SetAgent(m.agent)
                    /\ resp' = "ok"
                    /\ pending_system_switch_task' = TRUE
                    /\ switch_task' = [pc |-> "activate", package_ids |-> {},
                                       to_unpack |-> {}]
                    /\ sk' = sk
    /\ UNCHANGED <<max_system_history_count, dbus_connection, disk_vars, pending_clean_up_task,
                   pending_package_delete_task, delete_tasks, clean_up_task,
                   existing_store_package_ids, unit, run_vars, history_vars,
                   call_results>>

\* calculate_switch_duration(..).unwrap(): the state keeper panics when the
\* switch_start_time file does not exist; otherwise the file is removed.
SwitchDurationRecorded == switch_start_time

\* ConfigurationSwitchStartResult(Err): the handle is dropped and the switch
\* duration recorded; the status is left as it is.
HandleConfigurationSwitchStartResultErr ==
    /\ Handling("ConfigurationSwitchStartResult")
    /\ ~Head(queue).ok
    /\ queue' = Tail(queue)
    /\ pending_system_switch_task' = FALSE
    /\ sk' = IF SwitchDurationRecorded THEN sk ELSE "panicked"
    /\ switch_start_time' = FALSE
    /\ UNCHANGED <<agent_vars, max_system_history_count, dbus_connection, store, tracker,
                   pending_clean_up_task, pending_package_delete_task, task_vars,
                   resp, run_vars, history_vars, call_results>>

\* ConfigurationSwitchStartResult(Ok): wait_for_system_update_and_update_state
\* checks the tracker files. While the switch is InProgress the state keeper
\* waits for the unit (the request stays at the head of the queue and is
\* evaluated again after the wait). On a terminal status the agent state is
\* updated, the handle dropped, the switch duration recorded and
\* CleanupConfigurationHistory enqueued.
HandleConfigurationSwitchStartResultOk ==
    /\ Handling("ConfigurationSwitchStartResult")
    /\ Head(queue).ok
    /\ \E status \in {check_switching_status(tracker)} :
       \E m \in {IF status.kind = "Successful"
                 THEN mark_new_system_successful(Agent, store)
                 ELSE mark_new_system_failed(Agent)} :
          /\ tracker' = status.files
          /\ IF status.kind = "InProgress"
             THEN /\ sk' = "waiting"
                  /\ UNCHANGED <<agent_vars, queue, pending_system_switch_task,
                                 switch_start_time, successful_switches>>
             ELSE IF status.kind = "Err"
             THEN /\ sk' = "failed"
                  /\ queue' = Tail(queue)
                  /\ UNCHANGED <<agent_vars, pending_system_switch_task,
                                 switch_start_time, successful_switches>>
             ELSE /\ SetAgent(m.agent)
                  /\ successful_switches' =
                         IF Len(m.agent.system_configurations) > Len(system_configurations)
                         THEN successful_switches + 1
                         ELSE successful_switches
                  /\ IF m.outcome # "ok"
                     THEN /\ sk' = IF m.outcome = "panic" THEN "panicked" ELSE "failed"
                          /\ queue' = Tail(queue)
                          /\ UNCHANGED <<pending_system_switch_task, switch_start_time>>
                     ELSE /\ pending_system_switch_task' = FALSE
                          /\ switch_start_time' = FALSE
                          /\ IF SwitchDurationRecorded
                             THEN /\ sk' = AfterSelfSend(Tail(queue))
                                  /\ queue' = SelfSent(Tail(queue),
                                                       CleanupConfigurationHistory)
                             ELSE /\ sk' = "panicked"
                                  /\ queue' = Tail(queue)
    /\ UNCHANGED <<max_system_history_count, dbus_connection, store, pending_clean_up_task,
                   pending_package_delete_task, task_vars, resp, run_vars,
                   cleanups, dropped_configs, cleanup_added, call_results>>

\* wait_configuration_switch_complete as called by the state keeper: it
\* returns Ok when the unit is gone or inactive and Err when it sees the
\* unit failed; it keeps polling while the unit is activating or deactivating.
SKWaitConfigurationSwitchComplete ==
    /\ sk = "waiting"
    /\ unit.state \in {"absent", "failed"}
    /\ sk' = IF unit.state = "absent" THEN "running" ELSE "failed"
    /\ UNCHANGED <<agent_vars, max_system_history_count, dbus_connection, disk_vars, queue,
                   handle_vars, task_vars, resp, run_vars, history_vars,
                   call_results>>

\* CleanupConfigurationHistory: prune the history, then spawn a delete task
\* for packages_to_cleanup when it is not empty.
HandleCleanupConfigurationHistory ==
    /\ Handling("CleanupConfigurationHistory")
    /\ queue' = Tail(queue)
    /\ \E c \in {cleanup_configuration_history(Agent, max_system_history_count,
                                                store)} :
       \E n \in {IF current_status.tag = "Standby"
                 THEN num_configs_to_remove(system_configurations,
                                            max_system_history_count)
                 ELSE 0} :
          /\ SetAgent(c.agent)
          /\ cleanups' = IF c.outcome = "ok" THEN cleanups + 1 ELSE cleanups
          /\ dropped_configs' = dropped_configs \cup Range(Drained(system_configurations, n))
          /\ cleanup_added' = cleanup_added \cup
                                 (c.agent.packages_to_cleanup \ packages_to_cleanup)
          /\ IF c.outcome # "ok"
             THEN /\ sk' = IF c.outcome = "panic" THEN "panicked" ELSE "failed"
                  /\ UNCHANGED <<delete_tasks, pending_package_delete_task>>
             ELSE /\ sk' = sk
                  /\ IF has_packages_to_cleanup(c.agent)
                     THEN /\ delete_tasks' = Append(delete_tasks,
                                                    c.agent.packages_to_cleanup)
                          /\ pending_package_delete_task' = TRUE
                     ELSE UNCHANGED <<delete_tasks, pending_package_delete_task>>
    /\ UNCHANGED <<max_system_history_count, dbus_connection, disk_vars, pending_clean_up_task,
                   pending_system_switch_task, switch_task, clean_up_task,
                   existing_store_package_ids, unit, resp, run_vars,
                   successful_switches, call_results>>

\* PackageDeletionResult: success clears packages_to_cleanup and saves.
HandlePackageDeletionResult ==
    /\ Handling("PackageDeletionResult")
    /\ queue' = Tail(queue)
    /\ IF Head(queue).ok
       THEN SetAgent(clear_packages_to_cleanup(Agent))
       ELSE UNCHANGED agent_vars
    /\ pending_package_delete_task' = FALSE
    /\ UNCHANGED <<max_system_history_count, dbus_connection, disk_vars, sk, pending_clean_up_task,
                   pending_system_switch_task, task_vars, resp, run_vars,
                   history_vars, call_results>>

\* GetSummary: the caller gets the latest configuration of the history and
\* the status; AgentState::summary unwraps the last configuration.
HandleGetSummary ==
    /\ Handling("GetSummary")
    /\ queue' = Tail(queue)
    /\ IF system_configurations = << >>
       THEN /\ sk' = "panicked"
            /\ resp' = ChannelClosed
       ELSE /\ sk' = sk
            /\ resp' = "summary"
    /\ UNCHANGED <<agent_vars, max_system_history_count, dbus_connection, disk_vars, handle_vars,
                   task_vars, run_vars, history_vars, call_results>>

\* ------------------------------------------------------------------------
\* The switch task: downloader, unpacker, activation (state_keeper.rs,
\* actors/downloader.rs, actors/unpacker.rs, dbus_connection.rs)
\* ------------------------------------------------------------------------

\* The task ends by posting ConfigurationSwitchStartResult.
TaskPosts(ok) ==
    /\ switch_task' = NoTask
    /\ queue' = Posted(queue, ConfigurationSwitchStartResult(ok))

\* The switch task calls the downloader and goes on to the unpacker when the
\* downloader answered Ok.
DownloadPackages ==
    /\ switch_task.pc = "download"
    /\ CanPost
    /\ \E fetched \in BOOLEAN :
          \E r \in {download_packages(switch_task.package_ids,
                                      existing_store_package_ids, fetched)} :
             /\ existing_store_package_ids' = r.existing
             /\ IF r.ok
                THEN /\ switch_task' = [switch_task EXCEPT
                                           !.pc = "unpack",
                                           !.to_unpack = r.to_unpack]
                     /\ UNCHANGED queue
                ELSE TaskPosts(FALSE)
    /\ UNCHANGED <<agent_vars, max_system_history_count, dbus_connection, disk_vars, sk,
                   handle_vars, delete_tasks, clean_up_task, unit, resp,
                   run_vars, history_vars, call_results>>

\* UnpackerRequest::UnpackDownloads: the results that are not already
\* unpacked are unpacked into the store; the request fails when one of them
\* fails, after some of the others were unpacked.
UnpackDownloads ==
    /\ switch_task.pc = "unpack"
    /\ CanPost
    /\ \E unpacked \in SUBSET switch_task.to_unpack :
          /\ store' = store \cup unpacked
          /\ IF unpacked = switch_task.to_unpack
             THEN /\ switch_task' = [switch_task EXCEPT !.pc = "activate",
                                                        !.to_unpack = {}]
                  /\ UNCHANGED queue
             ELSE TaskPosts(FALSE)
    /\ UNCHANGED <<agent_vars, max_system_history_count, dbus_connection, tracker,
                   switch_start_time, sk, handle_vars, delete_tasks,
                   clean_up_task, existing_store_package_ids, unit, resp,
                   run_vars, history_vars, call_results>>

\* record_switch_start, then perform_configuration_switch starts the
\* transient unit; StartTransientUnit fails when the unit exists already,
\* and can fail for other reasons.
StartActivation ==
    /\ switch_task.pc = "activate"
    /\ CanPost
    /\ switch_start_time' = TRUE
    /\ \E started \in (IF unit.state = "absent" THEN BOOLEAN ELSE {FALSE}) :
          IF started
          THEN /\ unit' = [state |-> "start", result |-> "none"]
               /\ switch_task' = [switch_task EXCEPT !.pc = "wait"]
               /\ UNCHANGED queue
          ELSE /\ TaskPosts(FALSE)
               /\ UNCHANGED unit
    /\ UNCHANGED <<agent_vars, max_system_history_count, dbus_connection, store, tracker, sk,
                   handle_vars, delete_tasks, clean_up_task,
                   existing_store_package_ids, resp, run_vars, history_vars,
                   call_results>>

\* wait_configuration_switch_complete inside perform_configuration_switch:
\* Ok when the unit is gone, Err when it is seen failed.
ActivationReturns ==
    /\ switch_task.pc = "wait"
    /\ unit.state \in {"absent", "failed"}
    /\ CanPost
    /\ TaskPosts(unit.state = "absent")
    /\ UNCHANGED <<agent_vars, max_system_history_count, dbus_connection, disk_vars, sk,
                   handle_vars, delete_tasks, clean_up_task,
                   existing_store_package_ids, unit, resp, run_vars,
                   history_vars, call_results>>

\* record_switch_start returns Err when the file cannot be opened or
\* written (here: it cannot be opened, the file stays as it is); the task
\* unwraps the result and panics: it ends and posts nothing.
RecordSwitchStartFails ==
    /\ switch_task.pc = "activate"
    /\ switch_task' = [switch_task EXCEPT !.pc = "panicked"]
    /\ UNCHANGED <<agent_vars, max_system_history_count, dbus_connection,
                   disk_vars, queue, sk, handle_vars, delete_tasks,
                   clean_up_task, existing_store_package_ids, unit, resp,
                   run_vars, history_vars, call_results>>

\* ------------------------------------------------------------------------
\* The transient unit and the tracker (dbus_connection.rs,
\* system-switch-tracker/src/main.rs)
\* ------------------------------------------------------------------------

\* How the activation command ends.
ActivationResults == {"success", "1", "100"}

\* The arguments systemd gives to the post-switch tracker: service result,
\* exit code, exit status.
PostSwitchLines(result) ==
    IF result = "success"
    THEN <<"success", "exited", "0">>
    ELSE <<"exit-code", "exited", result>>

\* ExecStartPre: the tracker creates pre_switch (create_new); when the file
\* exists the tracker fails and so does the unit.
UnitExecStartPre ==
    /\ unit.state = "start"
    /\ IF tracker.pre_switch
       THEN /\ unit' = [state |-> "stop", result |-> "1"]
            /\ UNCHANGED tracker
       ELSE /\ unit' = [unit EXCEPT !.state = "exec"]
            /\ tracker' = [tracker EXCEPT !.pre_switch = TRUE]
    /\ UNCHANGED <<agent_vars, max_system_history_count, dbus_connection, store,
                   switch_start_time, queue, sk, handle_vars, switch_task,
                   delete_tasks, clean_up_task, existing_store_package_ids,
                   resp, run_vars, history_vars, call_results>>

\* ExecStart runs the activation command; ExecStartPost creates
\* switch_success when the command succeeded.
UnitExecStart ==
    /\ unit.state = "exec"
    /\ \E result \in ActivationResults :
          /\ unit' = [state |-> "stop", result |-> result]
          /\ tracker' = IF result = "success"
                        THEN [tracker EXCEPT !.switch_success = TRUE]
                        ELSE tracker
    /\ UNCHANGED <<agent_vars, max_system_history_count, dbus_connection, store,
                   switch_start_time, queue, sk, handle_vars, switch_task,
                   delete_tasks, clean_up_task, existing_store_package_ids,
                   resp, run_vars, history_vars, call_results>>

\* ExecStopPost: the tracker creates post_switch with the three values; the
\* unit then is inactive (and collected) or failed.
UnitExecStopPost ==
    /\ unit.state = "stop"
    /\ tracker' = IF tracker.post_switch.exists
                  THEN tracker
                  ELSE [tracker EXCEPT
                           !.post_switch = PostSwitch(PostSwitchLines(unit.result))]
    /\ unit' = IF unit.result = "success" THEN NoUnit
               ELSE [unit EXCEPT !.state = "failed"]
    /\ UNCHANGED <<agent_vars, max_system_history_count, dbus_connection, store,
                   switch_start_time, queue, sk, handle_vars, switch_task,
                   delete_tasks, clean_up_task, existing_store_package_ids,
                   resp, run_vars, history_vars, call_results>>

\* CollectMode=inactive-or-failed: the failed unit is unloaded.
UnitCollect ==
    /\ unit.state = "failed"
    /\ unit' = NoUnit
    /\ UNCHANGED <<agent_vars, max_system_history_count, dbus_connection, disk_vars, queue, sk,
                   handle_vars, switch_task, delete_tasks, clean_up_task,
                   existing_store_package_ids, resp, run_vars, history_vars,
                   call_results>>

\* ------------------------------------------------------------------------
\* The deleter (actors/deleter.rs) and the task that calls it
\* ------------------------------------------------------------------------

\* DeleterRequest::DeletePackages for the oldest delete task: the package
\* directories that exist are removed, up to the first removal that fails;
\* the task posts the result.
DeletePackages ==
    /\ delete_tasks # << >>
    /\ CanPost
    /\ LET present == Head(delete_tasks) \cap store
       IN \E deleted \in SUBSET present :
             /\ store' = store \ deleted
             /\ queue' = Posted(queue, PackageDeletionResult(deleted = present))
    /\ delete_tasks' = Tail(delete_tasks)
    /\ UNCHANGED <<agent_vars, max_system_history_count, dbus_connection, tracker,
                   switch_start_time, sk, handle_vars, switch_task,
                   clean_up_task, existing_store_package_ids, unit, resp,
                   run_vars, history_vars, call_results>>

\* ------------------------------------------------------------------------
\* Clients of the state keeper, and restarts of the process
\* ------------------------------------------------------------------------

\* Versions a rollback asks for (-1: no version given).
RollbackVersions == {-1, 1}

\* The requests a client can send: the server adds the system package to
\* the package ids.
SwitchRequests ==
    {SwitchToNewConfiguration(s, p \cup {s}) : s \in PackageIds, p \in SUBSET PackageIds}

\* StateKeeperInput::switch_to_new_configuration, called by the server, which
\* waits for the answer before it takes the next request.
ClientSwitch ==
    /\ Receiving
    /\ resp # "pending"
    /\ requests_left > 0
    /\ InChannel < QueueCapacity
    /\ \E req \in SwitchRequests : queue' = Append(queue, req)
    /\ resp' = "pending"
    /\ requests_left' = requests_left - 1
    /\ UNCHANGED <<agent_vars, max_system_history_count, dbus_connection, disk_vars, sk,
                   handle_vars, task_vars, crashes_left, history_vars, call_results>>

\* StateKeeperInput::perform_rollback.
ClientRollback ==
    /\ Receiving
    /\ resp # "pending"
    /\ requests_left > 0
    /\ InChannel < QueueCapacity
    /\ \E v \in RollbackVersions : queue' = Append(queue, PerformRollback(v))
    /\ resp' = "pending"
    /\ requests_left' = requests_left - 1
    /\ UNCHANGED <<agent_vars, max_system_history_count, dbus_connection, disk_vars, sk,
                   handle_vars, task_vars, crashes_left, history_vars, call_results>>

\* StateKeeperInput::get_summary.
ClientGetSummary ==
    /\ Receiving
    /\ resp # "pending"
    /\ requests_left > 0
    /\ InChannel < QueueCapacity
    /\ queue' = Append(queue, GetSummary)
    /\ resp' = "pending"
    /\ requests_left' = requests_left - 1
    /\ UNCHANGED <<agent_vars, max_system_history_count, dbus_connection, disk_vars, sk,
                   handle_vars, task_vars, crashes_left, history_vars, call_results>>

\* AgentState::from_saved_state_or_new with a state file.
from_saved_state(agent) ==
    [agent EXCEPT !.system_configurations = agent.state_file.system_configurations,
                  !.current_status = agent.state_file.current_status,
                  !.packages_to_cleanup = agent.state_file.packages_to_cleanup]

\* The process stops (a crash, or the exit that follows the end of an
\* actor) and is started again: the agent state is read from the state
\* file, every task and queue is gone, the downloader reads the store.
\* The unit belongs to systemd and goes on.
CrashRestart ==
    /\ crashes_left > 0
    /\ state_file # NoFile
    /\ crashes_left' = crashes_left - 1
    /\ SetAgent(from_saved_state(Agent))
    /\ queue' = << >>
    /\ sk' = "init"
    /\ pending_clean_up_task' = FALSE
    /\ pending_system_switch_task' = FALSE
    /\ pending_package_delete_task' = FALSE
    /\ switch_task' = NoTask
    /\ delete_tasks' = << >>
    /\ clean_up_task' = "none"
    /\ existing_store_package_ids' = store
    /\ resp' = IF resp = "pending" THEN ChannelClosed ELSE resp
    /\ UNCHANGED <<max_system_history_count, dbus_connection, disk_vars, unit, requests_left,
                   history_vars, call_results>>

Next ==
    \/ SKInitialRecovery
    \/ HandleCleanUpStateDir
    \/ CleanUpStateDirTask
    \/ HandleCleanUpStateDirResult
    \/ HandleSwitchToNewConfiguration
    \/ HandlePerformRollback
    \/ HandleConfigurationSwitchStartResultErr
    \/ HandleConfigurationSwitchStartResultOk
    \/ SKWaitConfigurationSwitchComplete
    \/ HandleCleanupConfigurationHistory
    \/ HandlePackageDeletionResult
    \/ HandleGetSummary
    \/ DownloadPackages
    \/ UnpackDownloads
    \/ StartActivation
    \/ ActivationReturns
    \/ UnitExecStartPre
    \/ UnitExecStart
    \/ UnitExecStopPost
    \/ UnitCollect
    \/ DeletePackages
    \/ ClientSwitch
    \/ ClientRollback
    \/ ClientGetSummary
    \/ CrashRestart

Spec == Init /\ [][Next]_vars

\* Behaviours in which the clients only send switch requests and the process
\* does not crash; they start with every package in the store.
InitInstalls ==
    /\ FirstStart
    /\ store = PackageIds
    /\ requests_left = MaxInstalls
    /\ crashes_left = 0

NextInstalls ==
    \/ SKInitialRecovery
    \/ HandleCleanUpStateDir
    \/ CleanUpStateDirTask
    \/ HandleCleanUpStateDirResult
    \/ HandleSwitchToNewConfiguration
    \/ HandleConfigurationSwitchStartResultErr
    \/ HandleConfigurationSwitchStartResultOk
    \/ HandleCleanupConfigurationHistory
    \/ HandlePackageDeletionResult
    \/ DownloadPackages
    \/ UnpackDownloads
    \/ StartActivation
    \/ ActivationReturns
    \/ UnitExecStartPre
    \/ UnitExecStart
    \/ UnitExecStopPost
    \/ UnitCollect
    \/ DeletePackages
    \/ ClientSwitch

SpecInstalls == InitInstalls /\ [][NextInstalls]_vars

\* The same behaviours, in which the file of the switch start time may fail
\* to be written.
NextSwitchTask ==
    \/ SKInitialRecovery
    \/ HandleCleanUpStateDir
    \/ CleanUpStateDirTask
    \/ HandleCleanUpStateDirResult
    \/ HandleSwitchToNewConfiguration
    \/ HandleConfigurationSwitchStartResultErr
    \/ HandleConfigurationSwitchStartResultOk
    \/ HandleCleanupConfigurationHistory
    \/ HandlePackageDeletionResult
    \/ DownloadPackages
    \/ UnpackDownloads
    \/ StartActivation
    \/ RecordSwitchStartFails
    \/ ActivationReturns
    \/ UnitExecStartPre
    \/ UnitExecStart
    \/ UnitExecStopPost
    \/ UnitCollect
    \/ DeletePackages
    \/ ClientSwitch

SpecSwitchTask == InitInstalls /\ [][NextSwitchTask]_vars

\* Behaviours of one request and one crash in which every step of the
\* program, of its tasks and of the unit that can be taken is eventually
\* taken: the state keeper's loop, the spawned tasks and systemd all make
\* progress. The clients and the crash are not forced.
MaxRecoveryRequests == 1

InitRecovery ==
    /\ FirstStart
    /\ store = PackageIds
    /\ requests_left = MaxRecoveryRequests
    /\ crashes_left = MaxCrashes

\* The steps of each sequential process: the state keeper, the switch task
\* and the unit.
StateKeeperStep ==
    \/ SKInitialRecovery
    \/ HandleCleanUpStateDir
    \/ HandleCleanUpStateDirResult
    \/ HandleSwitchToNewConfiguration
    \/ HandlePerformRollback
    \/ HandleConfigurationSwitchStartResultErr
    \/ HandleConfigurationSwitchStartResultOk
    \/ SKWaitConfigurationSwitchComplete
    \/ HandleCleanupConfigurationHistory
    \/ HandlePackageDeletionResult
    \/ HandleGetSummary

SwitchTaskStep ==
    \/ DownloadPackages
    \/ UnpackDownloads
    \/ StartActivation
    \/ ActivationReturns

UnitStep ==
    \/ UnitExecStartPre
    \/ UnitExecStart
    \/ UnitExecStopPost
    \/ UnitCollect

Progress ==
    /\ WF_vars(StateKeeperStep)
    /\ WF_vars(SwitchTaskStep)
    /\ WF_vars(UnitStep)
    /\ WF_vars(CleanUpStateDirTask)
    /\ WF_vars(DeletePackages)

SpecRecovery == InitRecovery /\ [][Next]_vars /\ Progress

\* The process starts with a state file whose status is
\* DownloadingNewConfiguration: behaviours of the state keeper and its
\* clients from there on.
InitResume ==
    /\ store \in SUBSET PackageIds
    /\ \E c \in InitialConfigurations(store) :
          /\ system_configurations = <<c>>
          /\ profiles = InitialProfiles(c)
    /\ \E req \in SwitchRequests :
          current_status =
              AgentStateStatus("DownloadingNewConfiguration",
                  SystemConfiguration(
                      latest_configuration_version(system_configurations) + 1,
                      req.system_package_id, req.package_ids))
    /\ packages_to_cleanup = {}
    /\ state_file = AgentStateDoc(system_configurations, current_status, {})
    /\ max_system_history_count \in 0..MaxHistoryCount
    /\ sk = "init"
    /\ existing_store_package_ids = store
    /\ tracker = TrackerFiles(FALSE, FALSE, NoPostSwitch)
    /\ Quiescent
    /\ requests_left = MaxRecoveryRequests
    /\ crashes_left = 0

NextResume ==
    \/ SKInitialRecovery
    \/ HandleSwitchToNewConfiguration
    \/ HandlePerformRollback
    \/ HandleGetSummary
    \/ ClientSwitch
    \/ ClientRollback
    \/ ClientGetSummary

SpecResume == InitResume /\ [][NextResume]_vars /\ Progress

\* The behaviours of the program from a first start and from a start with
\* a state file whose status is DownloadingNewConfiguration.
SpecRollback == (Init \/ InitResume) /\ [][Next]_vars

\* ------------------------------------------------------------------------
\* check_switching_status called on its own
\* ------------------------------------------------------------------------

\* Number of consecutive calls.
MaxCalls == 2

\* Polls of ActiveState counted in one call.
MaxPolls == 2

\* Requests sent to the downloader in one behaviour.
MaxDownloadRequests == 3

\* Contents of post_switch: what the tracker writes for the ways a unit can
\* end, and files that do not hold three lines.
PostSwitchContents ==
    {PostSwitchLines(r) : r \in ActivationResults \cup {"0"}} \cup
    {<<"signal", "killed", "100">>, <<"timeout", "killed", "15">>,
     << >>, <<"success">>, <<"exit-code", "exited">>,
     <<"exit-code", "exited", "100", "">>}

TrackerStates ==
    {TrackerFiles(pre, success, post) :
        pre \in BOOLEAN, success \in BOOLEAN,
        post \in {NoPostSwitch} \cup {PostSwitch(l) : l \in PostSwitchContents}}

\* An agent in Standby with nothing in flight.
Idle ==
    /\ store = PackageIds
    /\ system_configurations = <<SystemConfiguration(1, "b", PackageIds)>>
    /\ profiles = InitialProfiles(system_configurations[1])
    /\ current_status = StatusStandby
    /\ packages_to_cleanup = {}
    /\ state_file = AgentStateDoc(system_configurations, current_status, {})
    /\ max_system_history_count = MaxHistoryCount
    /\ sk = "running"
    /\ existing_store_package_ids = store
    /\ requests_left = 0
    /\ crashes_left = 0

InitCheck ==
    /\ Idle
    /\ Quiescent
    /\ tracker \in TrackerStates

\* One call of check_switching_status: what it returned, and the tracker
\* files before and after it.
CallCheckSwitchingStatus ==
    /\ Len(call_results) < MaxCalls
    /\ LET status == check_switching_status(tracker)
       IN /\ tracker' = status.files
          /\ call_results' = Append(call_results,
                 [kind |-> status.kind,
                  reboot_required |-> status.reboot_required,
                  codes |-> status.codes,
                  before |-> tracker,
                  after |-> status.files])
    /\ UNCHANGED <<agent_vars, max_system_history_count, dbus_connection, store,
                   switch_start_time, queue, sk, handle_vars, task_vars, resp,
                   run_vars, history_vars>>

NextCheck == CallCheckSwitchingStatus

SpecCheck == InitCheck /\ [][NextCheck]_vars

\* ------------------------------------------------------------------------
\* repair_profile_links called on its own
\* ------------------------------------------------------------------------

\* Version numbers of the histories, and the longest history.
RepairVersions == {0, 1, 2, 3}
MaxRepairHistory == 2

\* Entries found in the profiles directory besides the links of the history.
MaxStrayEntries == 2

\* Histories with strictly increasing version numbers, with or without a
\* tombstone value in front.
RepairConfigurations ==
    {tombstone} \cup
    {SystemConfiguration(v, s, {s}) : v \in RepairVersions, s \in PackageIds}

RepairHistories ==
    {h \in UNION {[1..n -> RepairConfigurations] : n \in 1..MaxRepairHistory} :
        \A i \in 1..Len(h) : \A j \in 1..Len(h) :
            i < j => /\ h[i].version_number < h[j].version_number
                     /\ ~is_tombstone(h[j])}

\* Names a profiles directory can hold: the profile, numbered links, a link
\* whose number is written with a leading zero, what an interrupted
\* overwrite_symlink_atomically leaves, and a name that is not numbered.
RepairNames ==
    {SystemProfileName, <<"junk">>, <<"system", "03", "link">>,
     TemporaryName(absolute_numbered_system_profile_path(1)),
     TemporaryName(SystemProfileName)} \cup
    {absolute_numbered_system_profile_path(v) : v \in RepairVersions}

RepairEntries == {Directory} \cup {Symlink(t) : t \in PackageIds}

RepairDirectories ==
    UNION {[names -> RepairEntries] :
              names \in {n \in SUBSET RepairNames : Cardinality(n) <= MaxStrayEntries}}

InitRepair ==
    /\ store \in SUBSET PackageIds
    /\ system_configurations \in RepairHistories
    /\ profiles \in RepairDirectories
    /\ current_status = StatusStandby
    /\ packages_to_cleanup = {}
    /\ state_file = AgentStateDoc(system_configurations, current_status, {})
    /\ max_system_history_count = MaxHistoryCount
    /\ sk = "running"
    /\ existing_store_package_ids = store
    /\ requests_left = 0
    /\ crashes_left = 0
    /\ tracker = TrackerFiles(FALSE, FALSE, NoPostSwitch)
    /\ Quiescent

\* One call of repair_profile_links: its outcome, the directory before it
\* and the number of system calls that changed the directory.
CallRepairProfileLinks ==
    /\ Len(call_results) < MaxCalls
    /\ LET r == repair_profile_links(system_configurations, profiles, store)
       IN /\ profiles' = r.dir
          /\ call_results' = Append(call_results,
                 [outcome |-> r.outcome, before |-> profiles,
                  writes |-> r.writes])
    /\ UNCHANGED <<system_configurations, current_status, packages_to_cleanup,
                   state_file, max_system_history_count, dbus_connection, disk_vars, queue, sk,
                   handle_vars, task_vars, resp, run_vars, history_vars>>

NextRepair == CallRepairProfileLinks

SpecRepair == InitRepair /\ [][NextRepair]_vars

\* ------------------------------------------------------------------------
\* download_one_nar called on its own (actors/downloader.rs, fingerprint.rs,
\* nix-core/src/signing.rs)
\* ------------------------------------------------------------------------

\* Number of signatures of a narinfo.
MaxSignatures == 2

\* Key names signatures declare, and the digests (nix32 text) a stream or a
\* narinfo can have. A hash field of a narinfo is the sequence of its
\* ":"-separated parts.
KeyNames == {"cache-1", "other-1"}
Digests == {"h1", "h2"}
NoHash == << >>
NarHashes == {<<"sha256", d>> : d \in Digests} \cup {<<"md5", "h1">>, <<"h1">>}
FileHashes == NarHashes \cup {NoHash, <<"sha256", "">>}

\* A signature of a narinfo: the declared key name and the signature text,
\* which is the signature of the fingerprint made with the key of that name
\* ("good"), 64 other bytes ("bad"), or not the base64 of 64 bytes
\* ("malformed").
SignatureTexts == {"good", "bad", "malformed"}
SignatureLists ==
    UNION {[1..n -> [key_name : KeyNames, sig : SignatureTexts]] :
              n \in 0..MaxSignatures}

Ok(value) == [is_ok |-> TRUE, value |-> value]
Err == [is_ok |-> FALSE, value |-> FALSE]

signature_from_base64(sig) == IF sig = "malformed" THEN Err ELSE Ok(TRUE)

\* PublicKeychain::verify: Ok(false) for a key name that is not in the
\* keychain, an error for a signature that cannot be decoded, otherwise
\* Ok(whether the signature verifies).
verify(keychain, key_name, sig) ==
    IF key_name \in keychain
    THEN IF ~signature_from_base64(sig).is_ok
         THEN Err
         ELSE Ok(sig = "good")
    ELSE Ok(FALSE)

\* Fingerprint::verify_fingerprint: any signature for which verify(..).is_ok().
verify_fingerprint(sigs, keychain) ==
    \E i \in 1..Len(sigs) : verify(keychain, sigs[i].key_name, sigs[i].sig).is_ok

\* download_one_nar: "ok" or the error. response is the answer of the cache
\* to the GET of the NAR: its status, the digest of the bytes received and
\* the digest of the decompressed stream.
download_one_nar(nar_info, keychain, response) ==
    LET file_hash == IF nar_info.file_hash = NoHash THEN ""
                     ELSE nar_info.file_hash[2]
    IN IF Len(nar_info.nar_hash) # 2 \/ nar_info.nar_hash[1] # "sha256"
       THEN "nar hash format"
       ELSE IF /\ nar_info.file_hash # NoHash
               /\ (Len(nar_info.file_hash) # 2 \/ nar_info.file_hash[1] # "sha256")
       THEN "file hash format"
       ELSE IF ~verify_fingerprint(nar_info.sigs, keychain)
       THEN "signature"
       ELSE IF ~response.success
       THEN "status code"
       ELSE IF response.decompressed_digest # nar_info.nar_hash[2]
       THEN "decompressed hash"
       ELSE IF file_hash # "" /\ response.compressed_digest # file_hash
       THEN "compressed hash"
       ELSE "ok"

InitFetch ==
    /\ Idle
    /\ Quiescent
    /\ tracker = TrackerFiles(FALSE, FALSE, NoPostSwitch)

\* One call of download_one_nar: its arguments, what verify_fingerprint
\* returned for the narinfo and the result.
CallDownloadOneNar ==
    /\ call_results = << >>
    /\ \E nar_info \in [nar_hash : NarHashes, file_hash : FileHashes,
                         sigs : SignatureLists],
          keychain \in SUBSET KeyNames,
          response \in [success : BOOLEAN, compressed_digest : Digests,
                         decompressed_digest : Digests] :
          call_results' =
              <<[nar_info |-> nar_info, keychain |-> keychain, response |-> response,
                 verified |-> verify_fingerprint(nar_info.sigs, keychain),
                 result |-> download_one_nar(nar_info, keychain, response)]>>
    /\ UNCHANGED <<agent_vars, max_system_history_count, dbus_connection, disk_vars, queue, sk,
                   handle_vars, task_vars, resp, run_vars, history_vars>>

NextFetch == CallDownloadOneNar

SpecFetch == InitFetch /\ [][NextFetch]_vars

\* ------------------------------------------------------------------------
\* Writes to the disk, one system call at a time (path_utils.rs,
\* state/agent_state.rs)
\* ------------------------------------------------------------------------
\* call_results holds the call in progress: its arguments, its position pc
\* and what was on the disk when it started. The process can stop between
\* two system calls; the next call is then made by the restarted process.

InitFiles ==
    /\ store = PackageIds
    /\ system_configurations = <<SystemConfiguration(1, "b", PackageIds)>>
    /\ current_status = StatusStandby
    /\ packages_to_cleanup = {}
    /\ state_file = AgentStateDoc(system_configurations, current_status, {})
    /\ max_system_history_count = MaxHistoryCount
    /\ sk = "running"
    /\ existing_store_package_ids = store
    /\ requests_left = 0
    /\ crashes_left = 0
    /\ tracker = TrackerFiles(FALSE, FALSE, NoPostSwitch)
    /\ Quiescent
    /\ \E names \in SUBSET {SystemProfileName, TemporaryName(SystemProfileName)} :
          \E dir \in [names -> RepairEntries \cup {Symlink("gone")}] :
              profiles = dir

NoCallInProgress ==
    IF call_results = << >>
    THEN TRUE
    ELSE call_results[1].pc \in {"ok", "err", "stopped"}

FilesUnchanged ==
    UNCHANGED <<system_configurations, current_status, packages_to_cleanup,
                max_system_history_count, dbus_connection, disk_vars, queue, sk, handle_vars,
                task_vars, resp, run_vars, history_vars>>

\* overwrite_symlink_atomically_with_check (with_check) reads the link and
\* returns when it has the target already; overwrite_symlink_atomically
\* starts at once.
CallOverwriteSymlink ==
    /\ NoCallInProgress
    /\ \E target \in PackageIds, with_check \in BOOLEAN :
          LET name == SystemProfileName
              pc == IF with_check /\ PathExists(profiles, store, name)
                    THEN IF profiles[name].kind # "symlink" THEN "err"
                         ELSE IF profiles[name].target = target THEN "ok"
                         ELSE "symlink"
                    ELSE "symlink"
          IN call_results' = <<[op |-> "overwrite", pc |-> pc, target |-> target,
                                name |-> name, with_check |-> with_check,
                                before |-> profiles]>>
    /\ UNCHANGED <<profiles, state_file>>
    /\ FilesUnchanged

\* The path is removed before the new link is made.
RemoveLinkFirst ==
    /\ call_results # << >>
    /\ call_results[1].pc = "symlink"
    /\ profiles' = RemoveEntries(profiles, {call_results[1].name})
    /\ call_results' = <<[call_results[1] EXCEPT !.pc = "rename"]>>
    /\ UNCHANGED state_file
    /\ FilesUnchanged

\* symlink(target, <path>-temporary): fails when the name exists.
SymlinkTemporary ==
    /\ call_results # << >>
    /\ call_results[1].pc = "symlink"
    /\ LET c == call_results[1]
           temporary == TemporaryName(c.name)
       IN IF temporary \in DOMAIN profiles
          THEN /\ call_results' = <<[c EXCEPT !.pc = "err"]>>
               /\ UNCHANGED profiles
          ELSE /\ call_results' = <<[c EXCEPT !.pc = "rename"]>>
               /\ profiles' = (temporary :> Symlink(c.target)) @@ profiles
    /\ UNCHANGED state_file
    /\ FilesUnchanged

\* rename(<path>-temporary, path): replaces the entry at path in one step;
\* fails when path is a directory or the temporary name is gone.
RenameTemporary ==
    /\ call_results # << >>
    /\ call_results[1].pc = "rename"
    /\ LET c == call_results[1]
           temporary == TemporaryName(c.name)
       IN IF \/ temporary \notin DOMAIN profiles
             \/ c.name \in DOMAIN profiles /\ profiles[c.name].kind = "dir"
          THEN /\ call_results' = <<[c EXCEPT !.pc = "err"]>>
               /\ UNCHANGED profiles
          ELSE /\ call_results' = <<[c EXCEPT !.pc = "ok"]>>
               /\ profiles' = (c.name :> profiles[temporary]) @@
                                   RemoveEntries(profiles, {temporary})
    /\ UNCHANGED state_file
    /\ FilesUnchanged

\* What the state file holds between the open that truncates it and the
\* end of the writes of the document: nothing, or the beginning of the
\* document. serde_json::from_str returns an error for it.
TruncatedFile ==
    [NoFile EXCEPT !.current_status = AgentStateStatus("Truncated", NoConfiguration)]

\* AgentState::save is called with a document to write.
CallSave ==
    /\ NoCallInProgress
    /\ \E status \in {StatusStandby,
                       AgentStateStatus("SwitchingToConfiguration",
                           SystemConfiguration(2, "a", PackageIds)),
                       AgentStateStatus("FailedSwitch",
                           SystemConfiguration(2, "a", PackageIds))} :
          call_results' = <<[op |-> "save", pc |-> "open",
                             doc |-> AgentStateDoc(system_configurations, status, {}),
                             before |-> state_file]>>
    /\ UNCHANGED <<profiles, state_file>>
    /\ FilesUnchanged

\* File::options().create(true).write(true).truncate(true).open(path)
OpenTruncate ==
    /\ call_results # << >>
    /\ call_results[1].pc = "open"
    /\ state_file' = TruncatedFile
    /\ call_results' = <<[call_results[1] EXCEPT !.pc = "write"]>>
    /\ UNCHANGED profiles
    /\ FilesUnchanged

\* serde_json::to_writer(&mut file, self) wrote the whole document.
WriteDocument ==
    /\ call_results # << >>
    /\ call_results[1].pc = "write"
    /\ state_file' = call_results[1].doc
    /\ call_results' = <<[call_results[1] EXCEPT !.pc = "ok"]>>
    /\ UNCHANGED profiles
    /\ FilesUnchanged

\* The process stops between two system calls of a call.
ProcessStops ==
    /\ ~NoCallInProgress
    /\ call_results' = <<[call_results[1] EXCEPT !.pc = "stopped"]>>
    /\ UNCHANGED <<profiles, state_file>>
    /\ FilesUnchanged

NextFiles ==
    \/ CallOverwriteSymlink
    \/ SymlinkTemporary
    \/ RenameTemporary
    \/ CallSave
    \/ OpenTruncate
    \/ WriteDocument
    \/ ProcessStops

SpecFiles == InitFiles /\ [][NextFiles]_vars

\* ------------------------------------------------------------------------
\* repair_profile_links after an interrupted link swap (path_utils.rs,
\* state/agent_state.rs)
\* ------------------------------------------------------------------------
\* The process stops inside overwrite_symlink_atomically, called by
\* repair_profile_links for the system link or for the numbered link of the
\* tracked configuration; the restarted process calls repair_profile_links.

InitInterrupted ==
    /\ store = PackageIds
    /\ system_configurations = <<SystemConfiguration(1, "b", PackageIds)>>
    /\ current_status = StatusStandby
    /\ packages_to_cleanup = {}
    /\ state_file = AgentStateDoc(system_configurations, current_status, {})
    /\ max_system_history_count = MaxHistoryCount
    /\ sk = "running"
    /\ existing_store_package_ids = store
    /\ requests_left = 0
    /\ crashes_left = 0
    /\ tracker = TrackerFiles(FALSE, FALSE, NoPostSwitch)
    /\ Quiescent
    /\ \E names \in SUBSET {SystemProfileName,
                            absolute_numbered_system_profile_path(1)} :
          profiles \in [names -> RepairEntries]

\* A call of overwrite_symlink_atomically_with_check made by
\* repair_profile_links for a link of the tracked configuration.
CallOverwriteLink ==
    /\ call_results = << >>
    /\ \E name \in {SystemProfileName, absolute_numbered_system_profile_path(1)} :
          LET target == Last(system_configurations).system_package_id
              pc == IF PathExists(profiles, store, name)
                    THEN IF profiles[name].kind # "symlink" THEN "err"
                         ELSE IF profiles[name].target = target THEN "ok"
                         ELSE "symlink"
                    ELSE "symlink"
          IN call_results' = <<[op |-> "overwrite", pc |-> pc, target |-> target,
                                name |-> name, with_check |-> TRUE,
                                before |-> profiles]>>
    /\ UNCHANGED <<profiles, state_file>>
    /\ FilesUnchanged

\* repair_profile_links called by the process that was started after the
\* stop.
RepairAfterRestart ==
    /\ call_results # << >>
    /\ call_results[1].pc = "stopped"
    /\ LET r == repair_profile_links(system_configurations, profiles, store)
       IN /\ profiles' = r.dir
          /\ call_results' = <<[call_results[1] EXCEPT !.op = "repair",
                                                       !.pc = r.outcome,
                                                       !.before = profiles]>>
    /\ UNCHANGED state_file
    /\ FilesUnchanged

NextInterrupted ==
    \/ CallOverwriteLink
    \/ SymlinkTemporary
    \/ RenameTemporary
    \/ ProcessStops
    \/ RepairAfterRestart

SpecInterrupted == InitInterrupted /\ [][NextInterrupted]_vars

\* ------------------------------------------------------------------------
\* The activation driver on its own (dbus_connection.rs)
\* ------------------------------------------------------------------------
\* The driver's task and the switch tasks it spawns, with requesters that
\* send PerformConfigurationSwitch whenever they like and that may have
\* dropped their response channel when the switch task answers.

\* Number of PerformConfigurationSwitch requests sent to the driver.
MaxDriverRequests == 5

\* PerformConfigurationSwitch spawning a switch task whatever
\* pending_switch_task holds.
spawn_switch_task_unchecked(dc) ==
    [dc EXCEPT !.input = Tail(@), !.pending_switch_task = TRUE,
               !.switch_tasks = @ + 1]

\* PerformConfigurationSwitch: panic when pending_switch_task is set,
\* otherwise spawn the switch task and keep its handle.
spawn_switch_task(dc) ==
    IF dc.pending_switch_task
    THEN [dc EXCEPT !.input = Tail(@), !.task = "panicked"]
    ELSE [dc EXCEPT !.input = Tail(@), !.pending_switch_task = TRUE,
                    !.switch_tasks = @ + 1]

DriverUnchanged ==
    UNCHANGED <<agent_vars, max_system_history_count, disk_vars, queue, sk,
                handle_vars, task_vars, resp, run_vars, history_vars,
                call_results>>

\* StartedDBusConnectionInput::perform_configuration_switch: the request is
\* queued while the driver's task runs.
SendPerformConfigurationSwitch ==
    /\ dbus_connection.sent < MaxDriverRequests
    /\ dbus_connection' =
           [dbus_connection EXCEPT
               !.sent = @ + 1,
               !.input = IF dbus_connection.task = "running"
                         THEN Append(@, "PerformConfigurationSwitch") ELSE @]
    /\ DriverUnchanged

DriverHandling(type) ==
    /\ dbus_connection.task = "running"
    /\ dbus_connection.input # << >>
    /\ Head(dbus_connection.input) = type

HandlePerformConfigurationSwitch ==
    /\ DriverHandling("PerformConfigurationSwitch")
    /\ dbus_connection' = spawn_switch_task(dbus_connection)
    /\ DriverUnchanged

\* ClearPendingSwitchTask: the handle is cleared (an error is logged when
\* there is none).
HandleClearPendingSwitchTask ==
    /\ DriverHandling("ClearPendingSwitchTask")
    /\ dbus_connection' = [dbus_connection EXCEPT !.input = Tail(@),
                                                  !.pending_switch_task = FALSE]
    /\ DriverUnchanged

\* A spawned switch task ends: perform_configuration_switch returned, the
\* result is sent to the requester and then ClearPendingSwitchTask to the
\* driver; when the requester dropped its channel the task returns before
\* it sends ClearPendingSwitchTask.
SwitchTaskReturns ==
    /\ dbus_connection.switch_tasks > 0
    /\ \E requester_listens \in BOOLEAN :
          dbus_connection' =
              [dbus_connection EXCEPT
                  !.switch_tasks = @ - 1,
                  !.input = IF requester_listens /\ dbus_connection.task = "running"
                            THEN Append(@, "ClearPendingSwitchTask") ELSE @]
    /\ DriverUnchanged

NextDriver ==
    \/ SendPerformConfigurationSwitch
    \/ HandlePerformConfigurationSwitch
    \/ HandleClearPendingSwitchTask
    \/ SwitchTaskReturns

SpecDriver == InitFetch /\ [][NextDriver]_vars

\* ------------------------------------------------------------------------
\* The activation driver and the switch tasks of the state keeper
\* (dbus_connection.rs, state_keeper.rs)
\* ------------------------------------------------------------------------
\* The driver with the requester the state keeper is: a switch task of the
\* state keeper sends PerformConfigurationSwitch and waits for the answer;
\* the state keeper accepts the next switch or rollback after it handled the
\* result of the previous one, so the next PerformConfigurationSwitch is
\* sent after the previous answer was delivered. At shutdown the state
\* keeper aborts its switch task and accepts nothing more.

HandoffUnchanged ==
    UNCHANGED <<agent_vars, max_system_history_count, disk_vars, queue,
                handle_vars, delete_tasks, clean_up_task,
                existing_store_package_ids, unit, resp, run_vars, history_vars,
                call_results>>

\* The switch task of an accepted request calls
\* StartedDBusConnectionInput::perform_configuration_switch: it sends the
\* request and waits for the answer; the send fails when the driver's task
\* ended.
RequesterPerforms ==
    /\ sk = "running"
    /\ switch_task.pc = "none"
    /\ dbus_connection.sent < MaxDriverRequests
    /\ dbus_connection' =
           [dbus_connection EXCEPT
               !.sent = @ + 1,
               !.input = IF dbus_connection.task = "running"
                         THEN Append(@, "PerformConfigurationSwitch") ELSE @]
    /\ switch_task' = [switch_task EXCEPT !.pc = IF dbus_connection.task = "running"
                                                 THEN "wait" ELSE "none"]
    /\ sk' = sk
    /\ HandoffUnchanged

\* The task spawned by the driver for a switch: perform_configuration_switch
\* returned and resp_tx.send(res) is called. The requester that waits gets
\* the answer; when the requester dropped its channel the send fails and the
\* task returns.
DriverTaskAnswers ==
    /\ dbus_connection.switch_tasks > dbus_connection.answered
    /\ IF switch_task.pc = "wait"
       THEN /\ dbus_connection' = [dbus_connection EXCEPT !.answered = @ + 1]
            /\ switch_task' = [switch_task EXCEPT !.pc = "none"]
       ELSE /\ dbus_connection' = [dbus_connection EXCEPT !.switch_tasks = @ - 1]
            /\ switch_task' = switch_task
    /\ sk' = sk
    /\ HandoffUnchanged

\* The same task after it delivered the answer: it sends
\* ClearPendingSwitchTask to the driver and ends.
DriverTaskSendsClear ==
    /\ dbus_connection.answered > 0
    /\ dbus_connection' =
           [dbus_connection EXCEPT
               !.answered = @ - 1,
               !.switch_tasks = @ - 1,
               !.input = IF dbus_connection.task = "running"
                         THEN Append(@, "ClearPendingSwitchTask") ELSE @]
    /\ UNCHANGED <<switch_task, sk>>
    /\ HandoffUnchanged

\* The requester whose request was dropped with the driver's task: resp_rx
\* returns an error.
RequesterSeesDriverGone ==
    /\ switch_task.pc = "wait"
    /\ dbus_connection.task = "panicked"
    /\ switch_task' = [switch_task EXCEPT !.pc = "none"]
    /\ UNCHANGED <<dbus_connection, sk>>
    /\ HandoffUnchanged

\* The state keeper shuts down: it aborts its pending switch task, whose
\* response channel is dropped, and it takes no request any more.
StateKeeperAbortsSwitchTask ==
    /\ sk = "running"
    /\ sk' = "stopped"
    /\ switch_task' = [switch_task EXCEPT !.pc = "none"]
    /\ UNCHANGED dbus_connection
    /\ HandoffUnchanged

NextHandoff ==
    \/ RequesterPerforms
    \/ HandlePerformConfigurationSwitch
    \/ DriverTaskAnswers
    \/ DriverTaskSendsClear
    \/ HandleClearPendingSwitchTask
    \/ RequesterSeesDriverGone
    \/ StateKeeperAbortsSwitchTask

SpecHandoff == InitFetch /\ [][NextHandoff]_vars

\* ------------------------------------------------------------------------
\* wait_configuration_switch_complete, one bus call at a time
\* (dbus_connection.rs)
\* ------------------------------------------------------------------------
\* In these behaviours unit.state is the ActiveState systemd has for the
\* unit ("absent": systemd has no such unit), and call_results holds the
\* calls of the function: the position pc of each, the last reply it got
\* and the state of the unit when that reply was made.

\* The values of ActiveState; "maintenance" stands for the values the
\* function does not name.
ActiveStates ==
    {"inactive", "activating", "active", "reloading", "deactivating", "failed",
     "maintenance"}

\* The replies to GetUnit: the path of the unit, NoSuchUnit when there is no
\* unit, or another error (the proxies time out after 1000 ms).
GetUnitReplies(state) ==
    (IF state = "absent" THEN {"NoSuchUnit"} ELSE {"path"}) \cup {"error"}

\* The replies to the reading of ActiveState: the state of the unit, or an
\* error, the only reply when the unit is gone.
ActiveStateReplies(state) ==
    (IF state = "absent" THEN {} ELSE {state}) \cup {"error"}

\* What the function does with the reply to GetUnit.
after_get_unit(reply) ==
    CASE reply = "NoSuchUnit" -> "ok"
      [] reply = "path" -> "poll"
      [] OTHER -> "err"

\* What the loop does with the reply to the reading of ActiveState: any
\* error ends the loop and the function returns Ok.
after_active_state(reply) ==
    CASE reply = "inactive" -> "ok"
      [] reply \in {"activating", "deactivating"} -> "poll"
      [] reply \in {"active", "reloading", "failed"} -> "err"
      [] reply = "error" -> "ok"
      [] OTHER -> "poll"

WaitUnchanged ==
    UNCHANGED <<agent_vars, max_system_history_count, dbus_connection,
                disk_vars, queue, sk, handle_vars, switch_task, delete_tasks,
                clean_up_task, existing_store_package_ids, resp, run_vars,
                history_vars>>

WaitInProgress ==
    IF call_results = << >>
    THEN FALSE
    ELSE call_results[Len(call_results)].pc \in {"get_unit", "poll"}

CallWaitConfigurationSwitchComplete ==
    /\ ~WaitInProgress
    /\ Len(call_results) < MaxCalls
    /\ call_results' = Append(call_results,
                              [op |-> "wait", pc |-> "get_unit",
                               reply |-> "none", unit_state |-> unit.state,
                               polls |-> 0])
    /\ UNCHANGED unit
    /\ WaitUnchanged

WaitGetUnit ==
    /\ WaitInProgress
    /\ call_results[Len(call_results)].pc = "get_unit"
    /\ \E reply \in GetUnitReplies(unit.state) :
          call_results' = [call_results EXCEPT ![Len(call_results)] =
                              [@ EXCEPT !.pc = after_get_unit(reply),
                                        !.reply = reply,
                                        !.unit_state = unit.state]]
    /\ UNCHANGED unit
    /\ WaitUnchanged

WaitGetActiveState ==
    /\ WaitInProgress
    /\ call_results[Len(call_results)].pc = "poll"
    /\ \E reply \in ActiveStateReplies(unit.state) :
          call_results' = [call_results EXCEPT ![Len(call_results)] =
                              [@ EXCEPT !.pc = after_active_state(reply),
                                        !.reply = reply,
                                        !.unit_state = unit.state,
                                        !.polls = IF @ < MaxPolls THEN @ + 1 ELSE @]]
    /\ UNCHANGED unit
    /\ WaitUnchanged

\* systemd: the unit changes its state, is started, or is collected.
SystemdChangesUnit ==
    /\ \E state \in ActiveStates \cup {"absent"} :
          /\ state # unit.state
          /\ unit' = [state |-> state, result |-> "none"]
    /\ UNCHANGED call_results
    /\ WaitUnchanged

NextWait ==
    \/ CallWaitConfigurationSwitchComplete
    \/ WaitGetUnit
    \/ WaitGetActiveState
    \/ SystemdChangesUnit

\* The function goes on as long as it has not returned.
SpecWait ==
    InitFetch /\ [][NextWait]_vars /\ WF_vars(WaitGetUnit \/ WaitGetActiveState)

\* ------------------------------------------------------------------------
\* DeleterRequest::DeletePackages, one package at a time (actors/deleter.rs)
\* ------------------------------------------------------------------------
\* The narinfo cache is the set of the package ids whose narinfo file, named
\* by the hash that starts the id, is in the cache directory.

\* remove_readonly_path is not part of the sources: the path is removed with
\* all it holds, or the removal fails and the path stays.
remove_readonly_path(paths, path, removed) ==
    IF removed THEN paths \ {path} ELSE paths

\* The orders in which the ids of a set can be visited.
Orders(ids) ==
    {order \in [1..Cardinality(ids) -> ids] : Range(order) = ids}

\* The loop over the package ids, visited in the given order: an id whose
\* store path does not exist is skipped; otherwise the store path is
\* removed, together with the cached narinfo when it exists; the first
\* removal that fails ends the loop with Err. removable holds the ids whose
\* store path can be removed.
RECURSIVE delete_packages(_, _, _, _)
delete_packages(order, store_dir, nar_info_cache, removable) ==
    IF order = << >>
    THEN [ok |-> TRUE, store |-> store_dir, nar_info_cache |-> nar_info_cache]
    ELSE LET package_id == Head(order)
         IN IF package_id \notin store_dir
            THEN delete_packages(Tail(order), store_dir, nar_info_cache, removable)
            ELSE IF package_id \in removable
                 THEN delete_packages(
                          Tail(order),
                          remove_readonly_path(store_dir, package_id, TRUE),
                          remove_readonly_path(nar_info_cache, package_id, TRUE),
                          removable)
                 ELSE [ok |-> FALSE,
                       store |-> remove_readonly_path(store_dir, package_id, FALSE),
                       nar_info_cache |->
                           remove_readonly_path(nar_info_cache, package_id, TRUE)]

InitDeleter ==
    /\ store \in SUBSET PackageIds
    /\ system_configurations = <<SystemConfiguration(1, "b", PackageIds)>>
    /\ profiles = InitialProfiles(system_configurations[1])
    /\ current_status = StatusStandby
    /\ packages_to_cleanup = {}
    /\ state_file = AgentStateDoc(system_configurations, current_status, {})
    /\ max_system_history_count = MaxHistoryCount
    /\ sk = "running"
    /\ existing_store_package_ids = store
    /\ requests_left = 0
    /\ crashes_left = 0
    /\ tracker = TrackerFiles(FALSE, FALSE, NoPostSwitch)
    /\ Quiescent

\* One DeletePackages request handled by the deleter: the ids, the narinfo
\* cache and the store before it, and what it left and answered.
CallDeletePackages ==
    /\ Len(call_results) < MaxCalls
    /\ \E package_ids \in SUBSET PackageIds,
          nar_info_cache \in SUBSET PackageIds,
          removable \in SUBSET PackageIds :
          \E order \in Orders(package_ids) :
             \E r \in {delete_packages(order, store, nar_info_cache, removable)} :
                /\ store' = r.store
                /\ call_results' =
                       Append(call_results,
                              [op |-> "delete", package_ids |-> package_ids,
                               store_before |-> store,
                               nar_info_cache_before |-> nar_info_cache,
                               removable |-> removable,
                               ok |-> r.ok, store |-> r.store,
                               nar_info_cache |-> r.nar_info_cache])
    /\ UNCHANGED <<agent_vars, max_system_history_count, dbus_connection,
                   tracker, switch_start_time, queue, sk, handle_vars,
                   task_vars, resp, run_vars, history_vars>>

SpecDeleter == InitDeleter /\ [][CallDeletePackages]_vars

\* ------------------------------------------------------------------------
\* The downloader's task, one request after the other (actors/downloader.rs)
\* ------------------------------------------------------------------------
\* call_results holds the requests sent to the downloader: the ids, the
\* set of the downloader before and after, the answer the caller got
\* ("closed": its response channel was dropped, or the request could not be
\* sent) and whether the task is running after the request.

DownloaderEnded ==
    IF call_results = << >>
    THEN FALSE
    ELSE call_results[Len(call_results)].task = "ended"

\* The DownloadPackages arm of the task. fetched: every fetch of a missing
\* package succeeded; nar_info_read: the narinfo of every package taken as
\* present was read from the cache or fetched again. A narinfo that cannot
\* be read ends the task (the `?` in the loop that augments the results),
\* and the caller's response channel is dropped.
handle_download_packages(package_ids, existing, fetched, nar_info_read) ==
    LET to_download == package_ids \ existing
        existing_package_ids == package_ids \cap existing
    IN IF (to_download = {} \/ fetched)
          /\ existing_package_ids # {} /\ ~nar_info_read
       THEN [answer |-> "closed", existing |-> existing, task |-> "ended"]
       ELSE LET r == download_packages(package_ids, existing, fetched)
            IN [answer |-> IF r.ok THEN "ok" ELSE "err",
                existing |-> r.existing, task |-> "running"]

\* A caller sends DownloadPackages and awaits the answer: when the task has
\* ended the request cannot be sent.
CallDownloadPackages ==
    /\ Len(call_results) < MaxDownloadRequests
    /\ \E package_ids \in (SUBSET PackageIds) \ {{}},
          fetched \in BOOLEAN, nar_info_read \in BOOLEAN :
          \E r \in {IF DownloaderEnded
                     THEN [answer |-> "closed",
                           existing |-> existing_store_package_ids,
                           task |-> "ended"]
                     ELSE handle_download_packages(
                              package_ids, existing_store_package_ids,
                              fetched, nar_info_read)} :
             /\ existing_store_package_ids' = r.existing
             /\ call_results' =
                    Append(call_results,
                           [op |-> "download", package_ids |-> package_ids,
                            fetched |-> fetched, nar_info_read |-> nar_info_read,
                            existing_before |-> existing_store_package_ids,
                            existing |-> r.existing,
                            sent |-> ~DownloaderEnded,
                            answer |-> r.answer, task |-> r.task])
    /\ UNCHANGED <<agent_vars, max_system_history_count, dbus_connection,
                   disk_vars, queue, sk, handle_vars, switch_task, delete_tasks,
                   clean_up_task, unit, resp, run_vars, history_vars>>

SpecDownloader == InitDeleter /\ [][CallDownloadPackages]_vars

\* ------------------------------------------------------------------------
\* A backlog of delete tasks (state_keeper.rs, actors/deleter.rs)
\* ------------------------------------------------------------------------
\* Behaviours in which a client keeps switching to the configuration (b, {b})
\* from a first start with the configuration (a, {a, b}), with one
\* configuration kept in the history, and in which the deleter handles no
\* request before the client sent its last one (its removals are slow).

\* The switch requests of the client: one for every slot of the queue.
BacklogRequests == QueueCapacity

InitBacklog ==
    /\ FirstStart
    /\ store = PackageIds
    /\ system_configurations[1].system_package_id = "a"
    /\ system_configurations[1].version_number = 0
    /\ max_system_history_count = 1
    /\ requests_left = BacklogRequests
    /\ crashes_left = 0

\* StateKeeperInput::switch_to_new_configuration with the same request.
ClientSwitchAgain ==
    /\ Receiving
    /\ resp # "pending"
    /\ requests_left > 0
    /\ InChannel < QueueCapacity
    /\ queue' = Append(queue, SwitchToNewConfiguration("b", {"b"}))
    /\ resp' = "pending"
    /\ requests_left' = requests_left - 1
    /\ UNCHANGED <<agent_vars, max_system_history_count, dbus_connection, disk_vars, sk,
                   handle_vars, task_vars, crashes_left, history_vars, call_results>>

\* The deleter gets to its requests after the last request of the client.
DeletePackagesLate ==
    /\ requests_left = 0
    /\ DeletePackages

NextBacklog ==
    \/ SKInitialRecovery
    \/ HandleCleanUpStateDir
    \/ CleanUpStateDirTask
    \/ HandleCleanUpStateDirResult
    \/ HandleSwitchToNewConfiguration
    \/ HandleConfigurationSwitchStartResultErr
    \/ HandleConfigurationSwitchStartResultOk
    \/ HandleCleanupConfigurationHistory
    \/ HandlePackageDeletionResult
    \/ DownloadPackages
    \/ UnpackDownloads
    \/ StartActivation
    \/ ActivationReturns
    \/ UnitExecStartPre
    \/ UnitExecStart
    \/ UnitExecStopPost
    \/ UnitCollect
    \/ DeletePackagesLate
    \/ ClientSwitchAgain

SpecBacklog == InitBacklog /\ [][NextBacklog]_vars

\* ------------------------------------------------------------------------
\* The delete tasks and the ids their results stand for (state_keeper.rs)
\* ------------------------------------------------------------------------
\* PackageDeletionResult carries no package ids. call_results records, for
\* every result posted, the ids the task had asked the deleter to delete;
\* the results are handled in the order in which they were posted.

\* DeletePackages, with the ids of the task recorded with its result.
DeletePackagesRecorded ==
    /\ delete_tasks # << >>
    /\ CanPost
    /\ LET present == Head(delete_tasks) \cap store
       IN \E deleted \in SUBSET present :
             /\ store' = store \ deleted
             /\ queue' = Posted(queue, PackageDeletionResult(deleted = present))
             /\ call_results' =
                    IF ChannelOpen
                    THEN Append(call_results,
                                [op |-> "delete", package_ids |-> Head(delete_tasks),
                                 ok |-> (deleted = present)])
                    ELSE call_results
    /\ delete_tasks' = Tail(delete_tasks)
    /\ UNCHANGED <<agent_vars, max_system_history_count, dbus_connection, tracker,
                   switch_start_time, sk, handle_vars, switch_task,
                   clean_up_task, existing_store_package_ids, unit, resp,
                   run_vars, history_vars>>

\* The delete task whose result is at the head of the queue.
ResultsInQueue ==
    Cardinality({i \in 1..Len(queue) : queue[i].type = "PackageDeletionResult"})
ReportingTask == call_results[Len(call_results) - ResultsInQueue + 1]

NextDeleteResults ==
    \/ SKInitialRecovery
    \/ HandleCleanUpStateDir
    \/ CleanUpStateDirTask
    \/ HandleCleanUpStateDirResult
    \/ HandleSwitchToNewConfiguration
    \/ HandleConfigurationSwitchStartResultErr
    \/ HandleConfigurationSwitchStartResultOk
    \/ HandleCleanupConfigurationHistory
    \/ HandlePackageDeletionResult
    \/ DownloadPackages
    \/ UnpackDownloads
    \/ StartActivation
    \/ ActivationReturns
    \/ UnitExecStartPre
    \/ UnitExecStart
    \/ UnitExecStopPost
    \/ UnitCollect
    \/ DeletePackagesRecorded
    \/ ClientSwitch

SpecDeleteResults == InitInstalls /\ [][NextDeleteResults]_vars

\* ------------------------------------------------------------------------
\* A crash inside wait_for_system_update_and_update_state (state_keeper.rs,
\* state/system_switch.rs)
\* ------------------------------------------------------------------------
\* check_switching_status removes the tracker files before it returns a
\* terminal status; the state is saved later, by mark_new_system_successful
\* or mark_new_system_failed. The process can stop in between.
\* call_results records the status that was lost with the process.

CrashAfterTrackerCleanUp ==
    /\ Handling("ConfigurationSwitchStartResult")
    /\ Head(queue).ok
    /\ crashes_left > 0
    /\ state_file # NoFile
    /\ \E status \in {check_switching_status(tracker)} :
          /\ status.kind \in {"Successful", "Failed"}
          /\ tracker' = status.files
          /\ call_results' = <<[op |-> "check_switching_status",
                                kind |-> status.kind,
                                configuration |-> current_status.configuration]>>
    /\ crashes_left' = crashes_left - 1
    /\ SetAgent(from_saved_state(Agent))
    /\ queue' = << >>
    /\ sk' = "init"
    /\ pending_clean_up_task' = FALSE
    /\ pending_system_switch_task' = FALSE
    /\ pending_package_delete_task' = FALSE
    /\ switch_task' = NoTask
    /\ delete_tasks' = << >>
    /\ clean_up_task' = "none"
    /\ existing_store_package_ids' = store
    /\ resp' = IF resp = "pending" THEN ChannelClosed ELSE resp
    /\ UNCHANGED <<max_system_history_count, dbus_connection, store,
                   switch_start_time, unit, requests_left, history_vars>>

NextLostOutcome ==
    \/ SKInitialRecovery
    \/ HandleCleanUpStateDir
    \/ CleanUpStateDirTask
    \/ HandleCleanUpStateDirResult
    \/ HandleSwitchToNewConfiguration
    \/ HandlePerformRollback
    \/ HandleConfigurationSwitchStartResultErr
    \/ HandleConfigurationSwitchStartResultOk
    \/ SKWaitConfigurationSwitchComplete
    \/ HandleCleanupConfigurationHistory
    \/ HandlePackageDeletionResult
    \/ HandleGetSummary
    \/ DownloadPackages
    \/ UnpackDownloads
    \/ StartActivation
    \/ ActivationReturns
    \/ UnitExecStartPre
    \/ UnitExecStart
    \/ UnitExecStopPost
    \/ UnitCollect
    \/ DeletePackages
    \/ ClientSwitch
    \/ ClientRollback
    \/ ClientGetSummary
    \/ CrashAfterTrackerCleanUp

SpecLostOutcome == InitRecovery /\ [][NextLostOutcome]_vars /\ Progress

\* ------------------------------------------------------------------------
\* Shutdown (main.rs, state_keeper.rs)
\* ------------------------------------------------------------------------

Shutdown == Request("Shutdown", TRUE, "", {}, -1)

\* SIGTERM: main shuts the server down, so that no client request follows,
\* and sends Shutdown to the state keeper.
SignalShutdown ==
    /\ Receiving
    /\ InChannel < QueueCapacity
    /\ \A i \in 1..Len(queue) : queue[i].type # "Shutdown"
    /\ requests_left' = 0
    /\ queue' = Append(queue, Shutdown)
    /\ UNCHANGED <<agent_vars, max_system_history_count, dbus_connection,
                   disk_vars, sk, handle_vars, task_vars, resp, crashes_left,
                   history_vars, call_results>>

\* Shutdown breaks the loop.
HandleShutdown ==
    /\ Handling("Shutdown")
    /\ queue' = Tail(queue)
    /\ sk' = "left_loop"
    /\ UNCHANGED <<agent_vars, max_system_history_count, dbus_connection,
                   disk_vars, handle_vars, task_vars, resp, run_vars,
                   history_vars, call_results>>

\* The handle of the clean-up task is awaited, then the switch task is
\* aborted: it ends without posting.
ShutdownAwaitCleanUp ==
    /\ sk = "left_loop"
    /\ pending_clean_up_task => clean_up_task = "none"
    /\ switch_task' = IF pending_system_switch_task THEN NoTask ELSE switch_task
    /\ sk' = "awaiting_delete"
    /\ UNCHANGED <<agent_vars, max_system_history_count, dbus_connection,
                   disk_vars, queue, handle_vars, delete_tasks, clean_up_task,
                   existing_store_package_ids, unit, resp, run_vars,
                   history_vars, call_results>>

\* The handle of the delete task, that of the task spawned last, is awaited.
ShutdownAwaitDelete ==
    /\ sk = "awaiting_delete"
    /\ pending_package_delete_task => delete_tasks = << >>
    /\ sk' = "joining_actors"
    /\ UNCHANGED <<agent_vars, max_system_history_count, dbus_connection,
                   disk_vars, queue, handle_vars, task_vars, resp, run_vars,
                   history_vars, call_results>>

\* The four actors are sent Shutdown and awaited: the deleter takes Shutdown
\* after the deletions it was sent before. state_keeper_task returns and the
\* receiving end of its queue is dropped.
ShutdownActors ==
    /\ sk = "joining_actors"
    /\ delete_tasks = << >>
    /\ sk' = "stopped"
    /\ queue' = << >>
    /\ UNCHANGED <<agent_vars, max_system_history_count, dbus_connection,
                   disk_vars, handle_vars, task_vars, resp, run_vars,
                   history_vars, call_results>>

ShutdownStep ==
    \/ HandleShutdown
    \/ ShutdownAwaitCleanUp
    \/ ShutdownAwaitDelete
    \/ ShutdownActors

\* Behaviours of one switch request, without a crash, in which SIGTERM may
\* come at any moment and every process makes progress.
InitShutdown ==
    /\ FirstStart
    /\ store = PackageIds
    /\ requests_left = MaxRecoveryRequests
    /\ crashes_left = 0

NextShutdown ==
    \/ SKInitialRecovery
    \/ HandleCleanUpStateDir
    \/ CleanUpStateDirTask
    \/ HandleCleanUpStateDirResult
    \/ HandleSwitchToNewConfiguration
    \/ HandleConfigurationSwitchStartResultErr
    \/ HandleConfigurationSwitchStartResultOk
    \/ HandleCleanupConfigurationHistory
    \/ HandlePackageDeletionResult
    \/ DownloadPackages
    \/ UnpackDownloads
    \/ StartActivation
    \/ ActivationReturns
    \/ UnitExecStartPre
    \/ UnitExecStart
    \/ UnitExecStopPost
    \/ UnitCollect
    \/ DeletePackages
    \/ ClientSwitch
    \/ SignalShutdown
    \/ HandleShutdown
    \/ ShutdownAwaitCleanUp
    \/ ShutdownAwaitDelete
    \/ ShutdownActors

SpecShutdown ==
    InitShutdown /\ [][NextShutdown]_vars /\ Progress /\ WF_vars(ShutdownStep)

\* ------------------------------------------------------------------------
\* Properties
\* ------------------------------------------------------------------------

\* C1: SwitchToNewConfiguration is accepted only in Standby; in FailedSwitch,
\* DownloadingNewConfiguration or SwitchingToConfiguration the caller gets
\* the handler's error, the history, the status, packages_to_cleanup and the
\* state file are unchanged, no switch task is spawned and the state keeper
\* goes on.
C1_SwitchAcceptedOnlyInStandby ==
    [][HandleSwitchToNewConfiguration =>
          /\ resp' = "ok" => current_status.tag = "Standby"
          /\ current_status.tag \in {"FailedSwitch", "DownloadingNewConfiguration",
                                     "SwitchingToConfiguration"} =>
                /\ resp' \in {AlreadyFailed, AlreadyDownloading, AlreadySwitching}
                /\ UNCHANGED <<system_configurations, current_status,
                               packages_to_cleanup, state_file>>
                /\ UNCHANGED <<switch_task, pending_system_switch_task, sk>>]_vars

\* A switch request was refused in FailedSwitch.
C1_Witness ==
    /\ resp = AlreadyFailed
    /\ current_status.tag = "FailedSwitch"
    /\ sk = "running"

\* C2: when the switch task ends with an error, the state keeper sets the
\* status to FailedSwitch of the configuration being switched to and saves
\* it, leaves the history unchanged and keeps running.
C2_TaskErrorMarksFailedSwitch ==
    [][HandleConfigurationSwitchStartResultErr =>
          /\ current_status' = AgentStateStatus("FailedSwitch",
                                                current_status.configuration)
          /\ state_file'.current_status = current_status'
          /\ system_configurations' = system_configurations
          /\ sk' = "running"]_vars

\* C3: the version numbers of the history are strictly increasing from the
\* oldest to the newest configuration, in memory and in the state file.
C3_VersionsStrictlyIncreasing ==
    /\ \A i \in 1..Len(system_configurations) :
          \A j \in 1..Len(system_configurations) :
             i < j => system_configurations[i].version_number <
                      system_configurations[j].version_number
    /\ \A i \in 1..Len(state_file.system_configurations) :
          \A j \in 1..Len(state_file.system_configurations) :
             i < j => state_file.system_configurations[i].version_number <
                      state_file.system_configurations[j].version_number

\* The history holds two configurations after a restart and a cleanup.
C3_Witness ==
    /\ Len(system_configurations) >= 2
    /\ crashes_left < MaxCrashes
    /\ cleanups > 0
    /\ successful_switches >= 2

\* C4: every package id of every configuration of the history is a directory
\* of the store or is being downloaded or unpacked by the switch in flight.
C4_RetainedPackagesInStore ==
    \A i \in 1..Len(system_configurations) :
       \A p \in system_configurations[i].package_ids :
          \/ p \in store
          \/ /\ switch_task.pc \in {"download", "unpack"}
             /\ p \in switch_task.package_ids

\* C5: after every CleanupConfigurationHistory, packages_to_cleanup holds no
\* package id or system package id of a retained configuration.
C5_CleanupSetDisjointFromRetained ==
    [][HandleCleanupConfigurationHistory /\ current_status.tag = "Standby" =>
          packages_to_cleanup' \cap PackagesOf(system_configurations') = {}]_vars

\* C6: after every CleanupConfigurationHistory, at most
\* max_system_history_count configurations that are not the tombstone value
\* remain in the history.
C6_AtMostMaxRetained ==
    [][HandleCleanupConfigurationHistory /\ current_status.tag = "Standby" =>
          Cardinality({i \in 1..Len(system_configurations') :
                          ~is_tombstone(system_configurations'[i])})
              <= max_system_history_count]_vars

C8_RepairedProfileLinks ==
    (call_results # << >> /\ call_results[1].outcome = "ok") =>
        /\ \A i \in 1..Len(system_configurations) :
              LET name == absolute_numbered_system_profile_path(
                              system_configurations[i].version_number)
              IN /\ name \in DOMAIN profiles
                 /\ profiles[name] = Symlink(system_configurations[i].system_package_id)
        /\ SystemProfileName \in DOMAIN profiles
        /\ profiles[SystemProfileName] =
               Symlink(Last(system_configurations).system_package_id)
        /\ \A name \in DOMAIN profiles :
              (Len(name) = 3 /\ name[1] = "system" /\ name[3] = "link") =>
                  \E i \in 1..Len(system_configurations) :
                     system_configurations[i].version_number = ParseU32(name[2])

\* A repair that returned Ok after it found a link of a version that is not
\* in the history, a link to another package and a missing link.
C8_Witness ==
    /\ call_results # << >>
    /\ call_results[1].outcome = "ok"
    /\ Len(system_configurations) = 2
    /\ \E name \in DOMAIN call_results[1].before : name \notin DOMAIN profiles
    /\ \E name \in DOMAIN call_results[1].before :
          /\ name \in DOMAIN profiles
          /\ profiles[name] # call_results[1].before[name]
    /\ \E name \in DOMAIN profiles : name \notin DOMAIN call_results[1].before

\* C9: for every combination of presence of the three tracker files,
\* check_switching_status returns Successful without reboot when post_switch
\* and switch_success are present; with post_switch present and
\* switch_success absent, Successful with reboot when the service result is
\* "exit-code" and the exit status "100", and Failed with the three codes
\* otherwise; InProgress in every other case. The three files are removed
\* in the Successful and Failed cases, and none is removed in the InProgress
\* case. (post_switch holds three lines.)
C9_CheckSwitchingStatusTable ==
    \A i \in 1..Len(call_results) :
       LET r == call_results[i]
           finished == r.before.post_switch.exists
           successful == r.before.switch_success
           lines == r.before.post_switch.lines
       IN (finished => Len(lines) = 3) =>
          /\ (finished /\ successful) =>
                r.kind = "Successful" /\ ~r.reboot_required
          /\ (finished /\ ~successful) =>
                IF lines[1] = "exit-code" /\ lines[3] = "100"
                THEN r.kind = "Successful" /\ r.reboot_required
                ELSE r.kind = "Failed" /\ r.codes = lines
          /\ ~finished => r.kind = "InProgress"
          /\ r.kind \in {"Successful", "Failed"} =>
                r.after = TrackerFiles(FALSE, FALSE, NoPostSwitch)
          /\ r.kind = "InProgress" => r.after = r.before

\* C10: when check_switching_status returned Successful or Failed, the call
\* that follows it with no tracker write in between returns InProgress.
C10_TerminalOutcomeReportedOnce ==
    \A i \in 1..Len(call_results) :
       (i > 1 /\ call_results[i - 1].kind \in {"Successful", "Failed"}) =>
           call_results[i].kind = "InProgress"

\* A call returned Failed, another Successful, and the next call InProgress.
C10_Witness ==
    /\ Len(call_results) = 2
    /\ call_results[1].kind = "Failed"
    /\ call_results[1].before.post_switch.exists
    /\ call_results[2].kind = "InProgress"
    /\ tracker = TrackerFiles(FALSE, FALSE, NoPostSwitch)

\* C11: when the process is restarted after a crash during activation (the
\* saved status is SwitchingToConfiguration and pre_switch was written), and
\* the unit finishes and the tracker writes post_switch, the state keeper
\* eventually leaves SwitchingToConfiguration; it leaves it for Standby with
\* the configuration appended to the history, or for FailedSwitch of that
\* configuration.
C11_RestartDuringActivationCompletes ==
    /\ (/\ sk = "init"
        /\ crashes_left < MaxCrashes
        /\ current_status.tag = "SwitchingToConfiguration"
        /\ tracker.pre_switch)
          ~> (current_status.tag # "SwitchingToConfiguration")
    /\ [][(/\ crashes_left < MaxCrashes
           /\ current_status.tag = "SwitchingToConfiguration"
           /\ current_status'.tag # "SwitchingToConfiguration") =>
             \/ /\ current_status' = StatusStandby
                /\ system_configurations' =
                       Append(system_configurations, current_status.configuration)
             \/ current_status' = AgentStateStatus("FailedSwitch",
                                                   current_status.configuration)]_vars

\* C12: when the agent started with the status DownloadingNewConfiguration
\* and the download requested again at the start succeeded, the switch to
\* that configuration resumes: the status eventually is no longer
\* DownloadingNewConfiguration.
C12_DownloadResumesSwitch ==
    (/\ current_status.tag = "DownloadingNewConfiguration"
     /\ sk = "running")
       ~> (current_status.tag # "DownloadingNewConfiguration")

\* C13: while the status is FailedSwitch the state keeper keeps serving
\* requests: it does not stop, every SwitchToNewConfiguration is answered
\* with the error and changes nothing, and PerformRollback (to a
\* configuration of the history) and GetSummary are answered.
C13_FailedSwitchKeepsServing ==
    /\ [](current_status.tag = "FailedSwitch" => Receiving)
    /\ [][(HandleSwitchToNewConfiguration /\ current_status.tag = "FailedSwitch") =>
             /\ resp' = AlreadyFailed
             /\ UNCHANGED agent_vars]_vars
    /\ [][(/\ HandlePerformRollback
           /\ current_status.tag = "FailedSwitch"
           /\ RollbackTarget(system_configurations, Head(queue).to_version) # {}) =>
             resp' = "ok"]_vars
    /\ [][(HandleGetSummary /\ current_status.tag = "FailedSwitch") =>
             resp' = "summary"]_vars

\* C14: verify_fingerprint returns true exactly when some signature of the
\* narinfo verifies over the fingerprint with the key of the keychain that
\* has the signature's key name; when every signature has an unknown key
\* name or does not verify, it returns false and download_one_nar fails.
C14_FetchNeedsVerifiedSignature ==
    \A i \in 1..Len(call_results) :
       LET r == call_results[i]
           verifies == \E j \in 1..Len(r.nar_info.sigs) :
                          /\ r.nar_info.sigs[j].key_name \in r.keychain
                          /\ r.nar_info.sigs[j].sig = "good"
       IN /\ r.verified = verifies
          /\ ~verifies => r.result # "ok"

C16_FetchChecksHashes ==
    \A i \in 1..Len(call_results) :
       LET r == call_results[i]
       IN r.result = "ok" =>
             /\ r.response.decompressed_digest = r.nar_info.nar_hash[2]
             /\ r.nar_info.file_hash # NoHash =>
                   r.response.compressed_digest = r.nar_info.file_hash[2]

\* C17: whenever the status carries a configuration (FailedSwitch,
\* DownloadingNewConfiguration, SwitchingToConfiguration), its version number
\* is the version number of the last configuration of the history plus one,
\* in memory and in the state file.
C17_StatusVersionIsLatestPlusOne ==
    /\ \A c \in into_inner_configuration(current_status) :
          /\ system_configurations # << >>
          /\ c.version_number =
                 latest_configuration_version(system_configurations) + 1
    /\ \A c \in into_inner_configuration(state_file.current_status) :
          /\ state_file.system_configurations # << >>
          /\ c.version_number =
                 latest_configuration_version(state_file.system_configurations) + 1

\* A switch failed after an earlier one succeeded and the history was cleaned.
C17_Witness ==
    /\ current_status.tag = "FailedSwitch"
    /\ state_file.current_status = current_status
    /\ successful_switches >= 1
    /\ cleanups >= 1
    /\ current_status.configuration.version_number >= 2

\* C18: the history is never empty, whatever max_system_history_count is
\* (0 included) and whatever switches and history cleanups happened.
C18_HistoryNeverEmpty ==
    /\ system_configurations # << >>
    /\ state_file # NoFile => state_file.system_configurations # << >>


\* C19: on a first start without a state file and with a running system
\* that is not identified, the history is one entry and that entry is the
\* tombstone value: version 0, id "unknown", no package.
C19_FirstStartTombstone ==
    (/\ current_status = StatusNew
     /\ state_file = NoFile
     /\ system_configurations[1].system_package_id = "unknown")
    => /\ Len(system_configurations) = 1
       /\ is_tombstone(system_configurations[1])


\* C20: a Successful outcome appends the configuration and sets Standby,
\* the state file is written with both, the profile links are repaired, and
\* CleanupConfigurationHistory is enqueued after the repair returned Ok;
\* CleanupConfigurationHistory is enqueued only with the status Standby.
C20_CleanupAfterSuccess ==
    [][(/\ Handling("ConfigurationSwitchStartResult")
        /\ Head(queue).ok
        /\ sk' # "init"
        /\ queue' \in {Tail(queue), Append(Tail(queue), CleanupConfigurationHistory)})
       => LET enqueued == queue' = Append(Tail(queue), CleanupConfigurationHistory)
              rep == repair_profile_links(system_configurations', profiles, store)
          IN /\ (/\ check_switching_status(tracker).kind = "Successful"
                 /\ current_status.tag = "SwitchingToConfiguration")
                => /\ system_configurations' =
                          Append(system_configurations, current_status.configuration)
                   /\ current_status' = StatusStandby
                   /\ state_file' = AgentStateDoc(system_configurations',
                                                  StatusStandby, packages_to_cleanup)
                   /\ enqueued => rep.outcome = "ok" /\ profiles' = rep.dir
             /\ enqueued => current_status' = StatusStandby]_vars


\* C21: overwrite_symlink_atomically (with or without the check) returning
\* Ok leaves the path a link to the target, and in every state of a call,
\* the one a stopped process leaves included, the path holds what it held
\* before the call or the link to the target; the call as a whole does what
\* the one-step operator says.
C21_SymlinkSwapIsAtomic ==
    (call_results # << >> /\ call_results[1].op = "overwrite")
    => LET c == call_results[1]
           Entry(dir) == IF c.name \in DOMAIN dir THEN <<dir[c.name]>> ELSE << >>
           whole == IF c.with_check
                    THEN overwrite_symlink_atomically_with_check(
                             c.before, store, c.target, c.name)
                    ELSE overwrite_symlink_atomically(c.before, c.target, c.name)
       IN /\ Entry(profiles) \in {Entry(c.before), <<Symlink(c.target)>>}
          /\ c.pc = "ok" => Entry(profiles) = <<Symlink(c.target)>>
          /\ c.pc \in {"ok", "err"} =>
                 /\ whole.ok = (c.pc = "ok")
                 /\ whole.dir = profiles

\* A link to another target was replaced by the two system calls.
C21_Witness ==
    /\ call_results # << >>
    /\ call_results[1].op = "overwrite"
    /\ call_results[1].pc = "ok"
    /\ SystemProfileName \in DOMAIN call_results[1].before
    /\ call_results[1].before[SystemProfileName].kind = "symlink"
    /\ call_results[1].before[SystemProfileName].target # call_results[1].target
    /\ TemporaryName(SystemProfileName) \notin DOMAIN profiles


\* C22: a call of repair_profile_links that follows a call that returned Ok,
\* with the same history, returns Ok, makes no system call that changes the
\* profiles directory and leaves the same links.
C22_RepairIsIdempotent ==
    \A i \in 1..Len(call_results) :
       (i > 1 /\ call_results[i - 1].outcome = "ok") =>
          /\ call_results[i].outcome = "ok"
          /\ call_results[i].writes = 0
          /\ call_results[i].before =
                 (IF i = Len(call_results) THEN profiles
                  ELSE call_results[i + 1].before)


\* C23: in every state of AgentState::save, the one a stopped process
\* leaves included, the state file holds the whole document it held before
\* the call or the whole new document.
C23_StateFileIsWhole ==
    (call_results # << >> /\ call_results[1].op = "save")
    => state_file \in {call_results[1].before, call_results[1].doc}


\* C24: when the state keeper answers a caller, spawns a switch task, changes
\* the profile links or dispatches a package deletion, the state file holds
\* the history, the status and packages_to_cleanup as they are in memory
\* after the change that preceded it.
C24_SavedBeforeSideEffects ==
    [][(\/ resp = "pending" /\ resp' \notin {"pending", ChannelClosed}
        \/ switch_task = NoTask /\ switch_task' # NoTask
        \/ profiles' # profiles
        \/ Len(delete_tasks') > Len(delete_tasks))
       => state_file' = AgentStateDoc(system_configurations', current_status',
                                      packages_to_cleanup')]_vars


\* C25: PerformRollback handled in DownloadingNewConfiguration or
\* SwitchingToConfiguration is answered with the handler's error, the
\* history, the status, packages_to_cleanup, the state file and the profile
\* links are unchanged, no task is spawned and no unit started; it is
\* answered Ok only in Standby and FailedSwitch.
C25_RollbackRefusedWhileBusy ==
    [][HandlePerformRollback =>
          /\ resp' = "ok" => current_status.tag \in {"Standby", "FailedSwitch"}
          /\ current_status.tag \in {"DownloadingNewConfiguration",
                                     "SwitchingToConfiguration"} =>
                /\ resp' = (IF current_status.tag = "SwitchingToConfiguration"
                            THEN AlreadySwitching ELSE AlreadyDownloading)
                /\ UNCHANGED agent_vars
                /\ UNCHANGED <<switch_task, pending_system_switch_task, unit,
                               tracker, switch_start_time, sk>>]_vars

\* A rollback was refused while a switch was going on.
C25_Witness ==
    /\ resp = AlreadySwitching
    /\ current_status.tag = "SwitchingToConfiguration"
    /\ switch_task # NoTask
    /\ sk = "running"


\* C26: the driver never has two switch tasks running, and a
\* PerformConfigurationSwitch handled while pending_switch_task is set
\* panics the driver's task without spawning a switch task.
C26_OneSwitchInFlight ==
    /\ [](dbus_connection.switch_tasks <= 1)
    /\ [][(HandlePerformConfigurationSwitch /\ dbus_connection.pending_switch_task)
           => /\ dbus_connection'.task = "panicked"
              /\ dbus_connection'.switch_tasks = dbus_connection.switch_tasks]_vars

\* The driver panicked on a second request while the switch task of the
\* first one was running.
C26_Witness ==
    /\ dbus_connection.task = "panicked"
    /\ dbus_connection.switch_tasks = 1
    /\ dbus_connection.pending_switch_task


\* C27: at most one delete task spawned by the state keeper is running, a
\* state-dir cleanup task is spawned only when none is running, and a
\* switch task is spawned only when none is running.
C27_OneTaskOfEachKind ==
    /\ [](Len(delete_tasks) <= 1)
    /\ [][HandleCleanUpStateDir => clean_up_task = "none"]_vars
    /\ [][((HandleSwitchToNewConfiguration \/ HandlePerformRollback)
             /\ switch_task' # switch_task) => switch_task = NoTask]_vars


C30_SwitchTaskStepsInOrder ==
    /\ [][switch_task'.pc # switch_task.pc
            => <<switch_task.pc, switch_task'.pc>> \in
                  {<<"none", "download">>, <<"download", "unpack">>,
                   <<"unpack", "activate">>, <<"activate", "wait">>,
                   <<"download", "none">>, <<"unpack", "none">>,
                   <<"activate", "none">>, <<"wait", "none">>}]_vars
    /\ [][(unit.state = "absent" /\ unit'.state = "start")
            => /\ switch_task.pc = "activate"
               /\ switch_start_time']_vars
    /\ [][(switch_task.pc \in {"download", "unpack", "activate", "wait"}
             /\ switch_task'.pc \notin {"download", "unpack", "activate", "wait"})
            => \E ok \in BOOLEAN :
                  /\ queue' = Posted(queue, ConfigurationSwitchStartResult(ok))
                  /\ switch_task.pc # "wait" => ~ok]_vars

\* C31: wait_configuration_switch_complete returns Ok only with the unit
\* gone or inactive when it last asked; it returns Ok when GetUnit answers
\* NoSuchUnit and when ActiveState is inactive, goes on polling when it is
\* activating or deactivating, returns Err when it is active, reloading or
\* failed; and a call returns when the unit ends up inactive or gone.
C31_WaitReturnsOnInactiveOnly ==
    /\ [](\A i \in 1..Len(call_results) :
            call_results[i].pc = "ok"
               => call_results[i].unit_state \in {"absent", "inactive"})
    /\ [](\A i \in 1..Len(call_results) :
            /\ call_results[i].reply \in {"NoSuchUnit", "inactive"}
                  => call_results[i].pc = "ok"
            /\ call_results[i].reply \in {"activating", "deactivating"}
                  => call_results[i].pc = "poll"
            /\ call_results[i].reply \in {"active", "reloading", "failed"}
                  => call_results[i].pc = "err")
    /\ (<>[](unit.state \in {"absent", "inactive"})) => []<>(~WaitInProgress)

\* C32: after a DeletePackages request answered Ok, no id of the request
\* has its store path or its cached narinfo left, whether or not the store
\* path existed before; and a request whose existing store paths can all be
\* removed is answered Ok, whatever paths do not exist.
C32_DeletedPackagesLeaveNothing ==
    \A i \in 1..Len(call_results) :
       LET call == call_results[i]
       IN /\ call.ok
                => /\ call.package_ids \cap call.store = {}
                   /\ call.package_ids \cap call.nar_info_cache = {}
          /\ (call.package_ids \cap call.store_before) \subseteq call.removable
                => call.ok

\* C33: a request in which a fetch of a missing package failed, or the
\* narinfo of a package taken as present could not be read, is answered
\* Err to its caller, and the task of the downloader is running after
\* every request, so that every later request is handled.
C33_DownloaderSurvivesFailures ==
    \A i \in 1..Len(call_results) :
       LET call == call_results[i]
       IN /\ call.task = "running"
          /\ call.sent
          /\ (\/ (call.package_ids \ call.existing_before # {} /\ ~call.fetched)
              \/ (call.package_ids \cap call.existing_before # {}
                    /\ ~call.nar_info_read))
                => call.answer = "err"

\* C36: a request that the downloader did not answer Ok leaves
\* existing_store_package_ids as it was, so that the next request for the
\* same ids fetches the ids that the failed request had to fetch.
C36_FailedDownloadLeavesSetUnchanged ==
    /\ \A i \in 1..Len(call_results) :
          call_results[i].answer # "ok"
             => call_results[i].existing = call_results[i].existing_before
    /\ \A i \in 1..(Len(call_results) - 1) :
          (/\ call_results[i].answer # "ok"
           /\ call_results[i + 1].package_ids = call_results[i].package_ids)
             => call_results[i + 1].package_ids \ call_results[i + 1].existing_before
                   = call_results[i].package_ids \ call_results[i].existing_before

\* C34: the state keeper never waits for a slot of its own queue: when its
\* loop sends CleanUpStateDir or ConfigurationSwitchStartResult at its start,
\* or CleanupConfigurationHistory after a switch result, the channel holds
\* fewer than QueueCapacity messages, whatever the clients and the tasks
\* posted before.
C34_SelfSendFindsFreeSlot ==
    /\ sk # "blocked"
    /\ sk = "init" => ~SelfSendBlocks(queue)
    /\ (/\ Handling("ConfigurationSwitchStartResult")
        /\ Head(queue).ok)
          => ~SelfSendBlocks(Tail(queue))

\* C35: with the state keeper as the requester, the task of the driver
\* never panics: whenever the driver takes PerformConfigurationSwitch from
\* its queue, pending_switch_task is clear, the ClearPendingSwitchTask of
\* the previous switch having been handled before.
C35_DriverNeverPanics ==
    /\ [](dbus_connection.task # "panicked")
    /\ [][HandlePerformConfigurationSwitch
            => ~dbus_connection.pending_switch_task]_vars

\* C37: a repair_profile_links call that finds the temporary link left by
\* a process that stopped between symlink and rename returns Ok, and after
\* it the temporary entry is gone and the link has the target of the tracked
\* configuration.
C37_RepairAfterInterruptedSwap ==
    (/\ call_results # << >>
     /\ call_results[1].op = "repair"
     /\ TemporaryName(call_results[1].name) \in DOMAIN call_results[1].before)
       => /\ call_results[1].pc = "ok"
          /\ TemporaryName(call_results[1].name) \notin DOMAIN profiles
          /\ call_results[1].name \in DOMAIN profiles
          /\ profiles[call_results[1].name] = Symlink(call_results[1].target)

\* C38: the ids that leave packages_to_cleanup leave it when a
\* PackageDeletionResult(Ok) is handled, and they are ids of the delete task
\* that reported it: ids that a later CleanupConfigurationHistory added stay
\* in the set.
C38_ClearedIdsWereDeleted ==
    /\ [][packages_to_cleanup \ packages_to_cleanup' # {}
            => HandlePackageDeletionResult /\ Head(queue).ok]_vars
    /\ [][(HandlePackageDeletionResult /\ Head(queue).ok)
            => (packages_to_cleanup \ packages_to_cleanup')
                  \subseteq ReportingTask.package_ids]_vars

\* C40: when the process is restarted after a crash during the download or
\* the unpacking of a switch (the saved status is SwitchingToConfiguration,
\* the switch start time is not recorded, there is no unit and no tracker
\* file), the recovery ends: the status eventually is Standby or
\* FailedSwitch.
C40_RecoveryBeforeActivationEnds ==
    (/\ sk = "init"
     /\ crashes_left < MaxCrashes
     /\ current_status.tag = "SwitchingToConfiguration"
     /\ ~switch_start_time
     /\ unit.state = "absent"
     /\ ~tracker.pre_switch)
       ~> (current_status.tag \in {"Standby", "FailedSwitch"})

\* C39: when the process stopped after check_switching_status removed the
\* tracker files of a finished activation and before the status was saved,
\* the restarted state keeper eventually has the status the activation
\* ended with: Standby with the configuration appended to the history when
\* it was Successful, FailedSwitch of the configuration when it Failed.
C39_OutcomeSurvivesCrash ==
    (/\ call_results # << >>
     /\ sk = "init")
       ~> (/\ call_results # << >>
           /\ IF call_results[1].kind = "Successful"
              THEN /\ current_status = StatusStandby
                   /\ system_configurations # << >>
                   /\ Last(system_configurations) = call_results[1].configuration
              ELSE current_status = AgentStateStatus("FailedSwitch",
                                                     call_results[1].configuration))
====
